---- MODULE Spec2Model ----
(***************************************************************************)
(* Nightly train induction planner (oipithesecond/kmrl).                   *)
(*                                                                         *)
(*   solver2.py : load_data -> preprocess_data_with_reasons ->             *)
(*                solve_primary_assignment ->                              *)
(*                show_train_recommendations_for_line                      *)
(*   solver.py  : load_data -> preprocess_data -> create_and_solve_model   *)
(*   app.py     : the dashboard; its tab3 repeats the ranking of solver2   *)
(*                                                                         *)
(* The datasets are pandas tables; a table is a sequence of rows (records) *)
(* here.  A python dict is a function whose domain is the key set, and a   *)
(* date is its proleptic ordinal (datetime.date.toordinal).  The CP-SAT    *)
(* engine is an external library: it is modelled by its contract, over the *)
(* constraints and the objective the code hands to it.                     *)
(***************************************************************************)
EXTENDS Integers, Sequences, FiniteSets, TLC

VARIABLES
    prog,                 \* which program runs: "solver2", "solver" or "app"
    pc,                   \* position of the run in its pipeline
    clock,                \* the wall clock's date (datetime.date.today())
    data,                 \* the dict of tables load_data returned
    eligibility_details,  \* solver2.py: train id -> [is_eligible, reason]
    eligibility,          \* solver.py: train id -> BOOLEAN
    evals,                \* the calls evaluated so far and their results, newest last
    shunting_costs,       \* preprocess_shunting_costs' result
    status,               \* the engine's status name
    values,               \* the engine's value of every decision variable
    solution,             \* the returned train id -> status dict, or None
    required_hours,       \* the returned hours dict, or None
    lines,                \* the route table handed to the ranker
    selected_line,        \* the route chosen for the ranking
    final_ranked_list,    \* the ranked list of train records
    printed,              \* the rows of the dashboard, in rank order
    runs,                 \* the locals of each of several runs going on at once
    scenario,             \* app.py: st.session_state.scenario
    sidebar_line          \* app.py: the value of the route selectbox

vars == <<prog, pc, clock, data, eligibility_details, eligibility, evals,
          shunting_costs, status, values, solution, required_hours,
          lines, selected_line, final_ranked_list, printed, runs,
          scenario, sidebar_line>>

evalVars  == <<eligibility_details, eligibility, evals>>
solveVars == <<shunting_costs, status, values, solution, required_hours>>
rankVars  == <<lines, selected_line, final_ranked_list, printed>>
uiVars    == <<scenario, sidebar_line>>

(***************************************************************************)
(* Bounds of the model.                                                    *)
(***************************************************************************)
NumTrains == 2      \* trains on the roster of a pipeline run
MaxCerts  == 3      \* certificate rows of the train under evaluation
MaxJobs   == 1      \* job card rows of the train under evaluation
MaxTicks  == 1      \* days the wall clock may advance past the fixed date
MaxEvals  == 2      \* evaluations kept in the history
NumRanked == 3      \* trains on the roster handed to the ranker

(***************************************************************************)
(* Program constants.                                                      *)
(***************************************************************************)
\* datetime.date(2025, 9, 18).toordinal()
Today == 739512
\* len(certs) < 3
MinCerts == 3

None == [None |-> TRUE]

AllTrainIds == <<"T1", "T2", "T3", "T4", "T5">>

REASON_ELIGIBLE == "Eligible for service"
REASON_MISSING  == "Missing required certificates"
REASON_EXPIRED  == "Certificate expired"
REASON_CRITICAL == "Critical maintenance open"

(***************************************************************************)
(* Generic helpers.                                                        *)
(***************************************************************************)
SeqsUpTo(S, n) == UNION {[1..k -> S] : k \in 0..n}

Range(s) == {s[i] : i \in DOMAIN s}

RECURSIVE SumSeq(_)
SumSeq(s) == IF s = <<>> THEN 0 ELSE Head(s) + SumSeq(Tail(s))

RECURSIVE Flatten(_)
Flatten(ss) == IF ss = <<>> THEN <<>> ELSE Head(ss) \o Flatten(Tail(ss))

\* int(x) of the quotient a / b: truncation toward zero
TruncDiv(a, b) == IF a >= 0 THEN a \div b ELSE -((-a) \div b)

(***************************************************************************)
(* Table access.                                                           *)
(***************************************************************************)
\* data["trainsets"]["trainset_id"].tolist()
train_ids(d) == [i \in DOMAIN d.trainsets |-> d.trainsets[i].trainset_id]

\* data["certificates"][data["certificates"]["trainset_id"] == train_id]
certs_of(d, train_id) ==
    SelectSeq(d.certificates, LAMBDA r : r.trainset_id = train_id)

\* data["job_cards"][data["job_cards"]["trainset_id"] == train_id]
jobs_of(d, train_id) ==
    SelectSeq(d.job_cards, LAMBDA r : r.trainset_id = train_id)

\* Variant of any_expired: a certificate expiring on the day itself counts
any_expired_on_the_day(certs, today) ==
    \E i \in DOMAIN certs : certs[i].expiry_date <= today

\* (certs["expiry_date"] < today).any()
any_expired(certs, today) ==
    \E i \in DOMAIN certs : certs[i].expiry_date < today

\* jobs[(jobs["status"] == "OPEN") & (jobs["is_critical"] == True)]
critical_open_jobs(jobs) ==
    SelectSeq(jobs, LAMBDA r : r.status = "OPEN" /\ r.is_critical = TRUE)

(***************************************************************************)
(* EligibilityEvaluator.                                                   *)
(***************************************************************************)
\* Variant of verdict_of: the job cards are looked at before the certificates
verdict_of_jobs_first(d, train_id, today) ==
    LET certs == certs_of(d, train_id) IN
    IF critical_open_jobs(jobs_of(d, train_id)) # <<>>
    THEN [is_eligible |-> FALSE, reason |-> REASON_CRITICAL]
    ELSE IF Len(certs) < MinCerts
    THEN [is_eligible |-> FALSE, reason |-> REASON_MISSING]
    ELSE IF any_expired(certs, today)
    THEN [is_eligible |-> FALSE, reason |-> REASON_EXPIRED]
    ELSE [is_eligible |-> TRUE, reason |-> REASON_ELIGIBLE]

\* One pass of the loop body of preprocess_data_with_reasons: the entry is
\* set to the default and overwritten by the first rule that fails.
verdict_of(d, train_id, today) ==
    LET certs == certs_of(d, train_id) IN
    IF Len(certs) < MinCerts
    THEN [is_eligible |-> FALSE, reason |-> REASON_MISSING]
    ELSE IF any_expired(certs, today)
    THEN [is_eligible |-> FALSE, reason |-> REASON_EXPIRED]
    ELSE IF critical_open_jobs(jobs_of(d, train_id)) # <<>>
    THEN [is_eligible |-> FALSE, reason |-> REASON_CRITICAL]
    ELSE [is_eligible |-> TRUE, reason |-> REASON_ELIGIBLE]

\* Variant of preprocess_data_with_reasons: today is read off the wall clock
preprocess_data_with_reasons_wall_clock(d) ==
    [t \in Range(train_ids(d)) |-> verdict_of(d, t, clock)]

\* solver2.py: the dict keyed by the roster's ids; its date is fixed
preprocess_data_with_reasons(d) ==
    [t \in Range(train_ids(d)) |-> verdict_of(d, t, Today)]

\* One pass of the loop body of solver.py's preprocess_data
is_eligible_of(d, train_id, today) ==
    LET certs == certs_of(d, train_id) IN
    IF Len(certs) < MinCerts \/ any_expired(certs, today)
    THEN FALSE
    ELSE critical_open_jobs(jobs_of(d, train_id)) = <<>>

\* solver.py: today is datetime.date.today(), the wall clock's date
preprocess_data(d, today) ==
    [t \in Range(train_ids(d)) |-> is_eligible_of(d, t, today)]

(***************************************************************************)
(* preprocess_shunting_costs.                                              *)
(***************************************************************************)
\* layout_df[layout_df['to_location'].str.contains(stem, na=False)]
moves_to(layout_df, stem) ==
    SelectSeq(layout_df, LAMBDA r : r.to_location.stem = stem)

\* int(moves['shunting_cost'].mean()) if not moves.empty else 0
avg_cost(moves) ==
    IF moves = <<>> THEN 0
    ELSE TruncDiv(SumSeq([i \in DOMAIN moves |-> moves[i].shunting_cost]), Len(moves))

preprocess_shunting_costs(layout_df) ==
    [maintenance |-> avg_cost(moves_to(layout_df, "IBL_Bay")),
     stabling    |-> avg_cost(moves_to(layout_df, "Stabling_Track"))]

(***************************************************************************)
(* ConstraintModelBuilder: what both solvers read off the datasets.        *)
(***************************************************************************)
\* data["trainsets"].loc[trainset_id == train_id, "cumulative_mileage_km"].iloc[0]
mileage_of(d, train_id) ==
    LET rows == SelectSeq(d.trainsets, LAMBDA r : r.trainset_id = train_id)
    IN  rows[1].cumulative_mileage_km

\* data["resources"].loc[resource_id == name, "available_capacity"].iloc[0]
capacity_of(d, name) ==
    LET rows == SelectSeq(d.resources, LAMBDA r : r.resource_id = name)
    IN  rows[1].available_capacity

ibl_bays_capacity(d) == capacity_of(d, "IBL_Bays")

manpower_capacity(d) == capacity_of(d, "Cleaning_Staff_ManHours")

\* data["job_cards"][data["job_cards"]["status"] == "OPEN"]
open_jobs(d) == SelectSeq(d.job_cards, LAMBDA r : r.status = "OPEN")

\* open_jobs[trainset_id == train_id]["required_man_hours"].sum()
open_hours_of(d, train_id) ==
    LET rows == SelectSeq(open_jobs(d), LAMBDA r : r.trainset_id = train_id)
    IN  SumSeq([i \in DOMAIN rows |-> rows[i].required_man_hours])

\* solver2.py: open jobs .groupby("trainset_id")["required_man_hours"].sum().to_dict()
required_hours_of(d) ==
    [t \in {open_jobs(d)[i].trainset_id : i \in DOMAIN open_jobs(d)} |->
        open_hours_of(d, t)]

\* solver.py: one entry for every train of the roster
required_hours_legacy(d) ==
    [t \in Range(train_ids(d)) |-> open_hours_of(d, t)]

\* required_hours.get(t, 0)
hours_get(rh, t) == IF t \in DOMAIN rh THEN rh[t] ELSE 0

\* int(train_mileage - avg_mileage), avg_mileage the mean of the roster
mileage_dev(d, train_id) ==
    LET n     == Len(d.trainsets)
        total == SumSeq([i \in DOMAIN d.trainsets |-> d.trainsets[i].cumulative_mileage_km])
    IN  TruncDiv(mileage_of(d, train_id) * n - total, n)

Abs(x) == IF x < 0 THEN -x ELSE x

\* Variant of get_is_eligible: a missing entry counts as eligible
get_is_eligible_default_true(ed, train_id) ==
    IF train_id \in DOMAIN ed THEN ed[train_id].is_eligible ELSE TRUE

\* eligibility_details.get(train_id, {}).get('is_eligible', False)
get_is_eligible(ed, train_id) ==
    IF train_id \in DOMAIN ed THEN ed[train_id].is_eligible ELSE FALSE

\* not details['is_eligible'] and "Critical" in details['reason']
critically_failed_trains(ed) ==
    {t \in DOMAIN ed : ~ed[t].is_eligible /\ ed[t].reason = REASON_CRITICAL}

(***************************************************************************)
(* The decision variables and the hard constraints.  An assignment a gives *)
(* every train of the roster its three booleans, as 0 or 1.                *)
(***************************************************************************)
VarNames == {"service", "standby", "maintenance"}

Assignments(d) == [Range(train_ids(d)) -> [VarNames -> {0, 1}]]

\* Variant of ExactlyOne: at least one of the three
ExactlyOne_at_least_one(a, t) == a[t].service + a[t].standby + a[t].maintenance >= 1

\* model.AddExactlyOne(list(assignments[train_id].values()))
ExactlyOne(a, t) == a[t].service + a[t].standby + a[t].maintenance = 1

\* Variant of ServiceOnlyIfEligible: a train with critical maintenance open
\* is also forced into maintenance
ServiceOnlyIfEligible_critical_maintained(ed, a, t) ==
    /\ ~get_is_eligible(ed, t) => a[t].service = 0
    /\ t \in critically_failed_trains(ed) => a[t].maintenance = 1

\* solver2.py: model.Add(service == 0) unless the verdict says eligible
ServiceOnlyIfEligible(ed, a, t) ==
    (~get_is_eligible(ed, t)) => a[t].service = 0

\* solver.py: model.Add(service == 0) for the entries that say not eligible
ServiceOnlyIfEligibleLegacy(el, a, t) ==
    (t \in DOMAIN el /\ ~el[t]) => a[t].service = 0

\* Variant of BayLimit: the standby variables are summed
BayLimit_over_standby(d, a) ==
    SumSeq([i \in DOMAIN d.trainsets |-> a[train_ids(d)[i]].standby])
        <= ibl_bays_capacity(d)

\* Variant of BayLimit: one bay is always kept free
BayLimit_one_bay_free(d, a) ==
    SumSeq([i \in DOMAIN d.trainsets |-> a[train_ids(d)[i]].maintenance])
        < ibl_bays_capacity(d)

\* model.Add(sum(maintenance) <= ibl_bays_capacity)
BayLimit(d, a) ==
    SumSeq([i \in DOMAIN d.trainsets |-> a[train_ids(d)[i]].maintenance])
        <= ibl_bays_capacity(d)

\* Variant of ManpowerLimit: the maintenance variables are not weighted
ManpowerLimit_unweighted(d, rh, a) ==
    SumSeq([i \in DOMAIN d.trainsets |-> a[train_ids(d)[i]].maintenance])
        <= manpower_capacity(d)

\* model.Add(sum(maintenance * int(required_hours.get(t, 0))) <= manpower_capacity)
ManpowerLimit(d, rh, a) ==
    SumSeq([i \in DOMAIN d.trainsets |->
               a[train_ids(d)[i]].maintenance * hours_get(rh, train_ids(d)[i])])
        <= manpower_capacity(d)

\* abs_dev = model.NewIntVar(0, 200000, ...)
AbsDevMax == 200000

\* Variant of AbsDevInDomain: the domain of abs_dev is twice as wide
AbsDevInDomain_wide(d, t) == Abs(mileage_dev(d, t)) <= AbsDevMax + AbsDevMax

\* model.AddAbsEquality(abs_dev, dev) for a variable of the domain 0..200000
AbsDevInDomain(d, t) == Abs(mileage_dev(d, t)) <= AbsDevMax

\* The assignments that satisfy every constraint of solve_primary_assignment
Feasible(d, ed) ==
    {a \in Assignments(d) :
        /\ \A t \in Range(train_ids(d)) :
              /\ ExactlyOne(a, t)
              /\ ServiceOnlyIfEligible(ed, a, t)
              /\ AbsDevInDomain(d, t)
        /\ BayLimit(d, a)
        /\ ManpowerLimit(d, required_hours_of(d), a)}

\* The assignments that satisfy every constraint of create_and_solve_model
FeasibleLegacy(d, el) ==
    {a \in Assignments(d) :
        /\ \A t \in Range(train_ids(d)) :
              /\ ExactlyOne(a, t)
              /\ ServiceOnlyIfEligibleLegacy(el, a, t)
        /\ BayLimit(d, a)
        /\ ManpowerLimit(d, required_hours_legacy(d), a)}

(***************************************************************************)
(* The objective.                                                          *)
(***************************************************************************)
\* solver2.py: w_mileage, w_branding, w_shunting, w_urgency
w_mileage  == 1
w_branding == 10000
w_shunting == 10
w_urgency  == 1000000

\* solver.py: w_mileage, w_branding, w_shunting
w_mileage_legacy  == 1
w_branding_legacy == 1000
w_shunting_legacy == 10

\* service_mileage_cost: abs_dev when service is true, 0 when it is false
service_mileage_cost(d, a, t) ==
    IF a[t].service = 1 THEN Abs(mileage_dev(d, t)) ELSE 0

total_mileage_deviation_cost(d, a) ==
    SumSeq([i \in DOMAIN d.trainsets |-> service_mileage_cost(d, a, train_ids(d)[i])])

\* train["cumulative_mileage_km"] > avg_mileage
above_average(d, t) ==
    mileage_of(d, t) * Len(d.trainsets)
        > SumSeq([j \in DOMAIN d.trainsets |-> d.trainsets[j].cumulative_mileage_km])

\* solver.py: service * deviation, for a train above the fleet average only
mileage_cost_legacy(d, a, t) ==
    IF above_average(d, t) THEN a[t].service * mileage_dev(d, t) ELSE 0

\* solver.py: total_mileage_cost = sum(mileage_deviations)
total_mileage_cost_legacy(d, a) ==
    SumSeq([i \in DOMAIN d.trainsets |-> mileage_cost_legacy(d, a, train_ids(d)[i])])

\* (1 - service) * int(penalty_per_hour) for the i-th SLA row, if its train
\* is in assignments; the exposure columns of the row are not read
branding_penalty(d, a, i) ==
    IF d.slas[i].trainset_id \in DOMAIN a
    THEN (1 - a[d.slas[i].trainset_id].service) * d.slas[i].penalty_per_hour
    ELSE 0

\* total_branding_penalty = sum(...) over the rows of data["slas"]
total_branding_penalty(d, a) ==
    SumSeq([i \in DOMAIN d.slas |-> branding_penalty(d, a, i)])

\* maintenance * cost to a bay + (service + standby) * cost to a stabling track
total_shunting_cost(d, sc, a) ==
    SumSeq([i \in DOMAIN d.trainsets |->
               a[train_ids(d)[i]].maintenance * sc.maintenance
               + (a[train_ids(d)[i]].service + a[train_ids(d)[i]].standby) * sc.stabling])

\* Variant of urgency_cost: every train that is not eligible is charged on
\* standby, whatever its reason
urgency_cost_any_ineligible(ed, a, t) ==
    IF t \in DOMAIN ed /\ ~ed[t].is_eligible THEN a[t].standby ELSE 0

\* assignments[train_id]["standby"] for train_id in critically_failed_trains
urgency_cost(ed, a, t) ==
    IF t \in critically_failed_trains(ed) THEN a[t].standby ELSE 0

\* urgency_penalty = sum(standby of the critically failed trains)
urgency_penalty(d, ed, a) ==
    SumSeq([i \in DOMAIN d.trainsets |-> urgency_cost(ed, a, train_ids(d)[i])])

\* model.Minimize(...) of solve_primary_assignment
objective(d, ed, sc, a) ==
    w_mileage * total_mileage_deviation_cost(d, a)
    + w_branding * total_branding_penalty(d, a)
    + w_shunting * total_shunting_cost(d, sc, a)
    + w_urgency * urgency_penalty(d, ed, a)

\* model.Minimize(...) of create_and_solve_model
objective_legacy(d, sc, a) ==
    w_mileage_legacy * total_mileage_cost_legacy(d, a)
    + w_branding_legacy * total_branding_penalty(d, a)
    + w_shunting_legacy * total_shunting_cost(d, sc, a)

(***************************************************************************)
(* OptimizationEngine: solver.solve(model) under a time budget, for the    *)
(* feasible set F and the objective value cost[a] of every a in F.         *)
(* OPTIMAL comes with a minimal feasible assignment, FEASIBLE with any     *)
(* feasible one, INFEASIBLE only when there is none, and UNKNOWN (the      *)
(* budget ran out before any assignment was found) with no values at all.  *)
(***************************************************************************)
solver_solve(F, cost) ==
    LET costs == {cost[a] : a \in F}
        best  == {c \in costs : \A c2 \in costs : c <= c2}
    IN  {[status |-> "OPTIMAL", values |-> a] : a \in {x \in F : cost[x] \in best}}
        \cup {[status |-> "FEASIBLE", values |-> a] : a \in F}
        \cup {[status |-> "INFEASIBLE", values |-> None] : x \in {y \in {0} : F = {}}}
        \cup {[status |-> "UNKNOWN", values |-> None]}

\* status in (cp_model.OPTIMAL, cp_model.FEASIBLE)
usable(st) == st \in {"OPTIMAL", "FEASIBLE"}

(***************************************************************************)
(* ResultInterpreter.                                                      *)
(***************************************************************************)
\* "Revenue Service" if Value(service) else "Standby" if Value(standby) else "Maintenance"
decode_status(v) ==
    IF v.service # 0 THEN "Revenue Service"
    ELSE IF v.standby # 0 THEN "Standby"
    ELSE "Maintenance"

\* solver2.py: solution = {t: ... for t in train_ids}
decode_solution(d, vals) ==
    [t \in Range(train_ids(d)) |-> decode_status(vals[t])]

\* Variant of primary_return: a best-effort all-Standby plan on failure
primary_return_best_effort(d, r) ==
    IF usable(r.status)
    THEN [solution |-> decode_solution(d, r.values), required_hours |-> required_hours_of(d)]
    ELSE [solution |-> [t \in Range(train_ids(d)) |-> "Standby"],
          required_hours |-> required_hours_of(d)]

\* solver2.py: return solution, required_hours / return None, None
primary_return(d, r) ==
    IF usable(r.status)
    THEN [solution |-> decode_solution(d, r.values), required_hours |-> required_hours_of(d)]
    ELSE [solution |-> None, required_hours |-> None]

\* solver.py: status_str, "Unknown" unless one of the three variables is 1
decode_status_legacy(v) ==
    IF v.service = 1 THEN "Revenue Service"
    ELSE IF v.standby = 1 THEN "Standby"
    ELSE IF v.maintenance = 1 THEN "Maintenance"
    ELSE "Unknown"

\* The SLA part of the audit text: the first SLA row of the train, when its
\* exposure is below target
sla_reason(d, t) ==
    LET rows == SelectSeq(d.slas, LAMBDA r : r.trainset_id = t) IN
    IF rows # <<>> /\ rows[1].current_exposure_hours < rows[1].target_exposure_hours
    THEN << [part |-> "Branding SLA: ACTIVE",
             current |-> rows[1].current_exposure_hours,
             target |-> rows[1].target_exposure_hours] >>
    ELSE <<>>

\* solver.py: the parts joined into "Detailed Reasoning" (the percentage of
\* the mileage part is a formatted float and is left out)
detailed_reasoning(d, el, t) ==
    << [part |-> IF el[t] THEN "Eligible for service"
                 ELSE "INELIGIBLE (Cert/Job Card issue)"] >>
    \o << [part |-> "Mileage", km |-> mileage_of(d, t)] >>
    \o sla_reason(d, t)
    \o (IF open_hours_of(d, t) > 0
        THEN << [part |-> "Pending Work", hours |-> open_hours_of(d, t)] >>
        ELSE <<>>)

\* solver.py: pd.DataFrame(solution_list), one row for every train in order
decode_solution_legacy(d, el, vals) ==
    [i \in DOMAIN d.trainsets |->
        [Trainset_ID        |-> train_ids(d)[i],
         Assigned_Status    |-> decode_status_legacy(vals[train_ids(d)[i]]),
         Detailed_Reasoning |-> detailed_reasoning(d, el, train_ids(d)[i])]]

(***************************************************************************)
(* LineRecommendationRanker.                                               *)
(***************************************************************************)
\* METRO_LINES, in the order of its keys
METRO_LINES ==
    << [name |-> "Line A (Short: 20km)", km |-> 250],
       [name |-> "Line B (Medium: 40km)", km |-> 450],
       [name |-> "Line C (Long: 60km)", km |-> 650],
       [name |-> "Line D (Express: 80km)", km |-> 900],
       [name |-> "Line E (Long Express: 100km)", km |-> 1100] >>

\* lines[selected_line]
line_km(ls, name) ==
    LET rows == SelectSeq(ls, LAMBDA r : r.name = name) IN rows[1].km

\* Variant of is_long_line: a route at the mean is not long
is_long_line_strict(ls, name) ==
    line_km(ls, name) * Len(ls) > SumSeq([i \in DOMAIN ls |-> ls[i].km])

\* Variant of is_long_line: the route is compared with the middle route of
\* the table
is_long_line_middle(ls, name) ==
    line_km(ls, name) >= ls[(Len(ls) + 1) \div 2].km

\* lines[selected_line] >= sum(lines.values()) / len(lines)
is_long_line(ls, name) ==
    line_km(ls, name) * Len(ls) >= SumSeq([i \in DOMAIN ls |-> ls[i].km])

\* future_certs['expiry_date'].min() if not future_certs.empty else "N/A":
\* the empty sequence stands for "N/A"
next_cert_expiry(d, t, today) ==
    LET future == {c.expiry_date : c \in {x \in Range(certs_of(d, t)) : x.expiry_date >= today}}
    IN  IF future = {} THEN <<>>
        ELSE << CHOOSE x \in future : \A y \in future : x <= y >>

\* all_trains_details: one record for every item of primary_solution, which
\* was filled in the order of the roster
all_trains_details(d, ed, rh, sol, today) ==
    [i \in DOMAIN d.trainsets |->
        [id               |-> train_ids(d)[i],
         status           |-> sol[train_ids(d)[i]],
         mileage          |-> mileage_of(d, train_ids(d)[i]),
         pending_work_hrs |-> hours_get(rh, train_ids(d)[i]),
         next_cert_expiry |-> next_cert_expiry(d, train_ids(d)[i], today),
         eligibility      |-> ed[train_ids(d)[i]]]]

\* Variant of bucket: the first train of a status is left out
bucket_without_first(details, st) ==
    LET rows == SelectSeq(details, LAMBDA r : r.status = st)
    IN  IF rows = <<>> THEN rows ELSE Tail(rows)

\* [t for t in all_trains_details if t['status'] == st]
bucket(details, st) == SelectSeq(details, LAMBDA r : r.status = st)

\* Variant of insert_by_mileage: x goes in front of its equals
insert_by_mileage_before_ties(sorted, x, reverse) ==
    LET before(y) == IF reverse THEN y.mileage > x.mileage ELSE y.mileage < x.mileage
        keep == {i \in 0..Len(sorted) : \A j \in 1..i : before(sorted[j])}
        k    == CHOOSE i \in keep : \A j \in keep : j <= i
    IN  SubSeq(sorted, 1, k) \o <<x>> \o SubSeq(sorted, k + 1, Len(sorted))

\* list.sort places x behind every element it does not have to precede:
\* the sort is stable, with reverse=True as well
insert_by_mileage(sorted, x, reverse) ==
    LET before(y) == IF reverse THEN y.mileage >= x.mileage ELSE y.mileage <= x.mileage
        keep == {i \in 0..Len(sorted) : \A j \in 1..i : before(sorted[j])}
        k    == CHOOSE i \in keep : \A j \in keep : j <= i
    IN  SubSeq(sorted, 1, k) \o <<x>> \o SubSeq(sorted, k + 1, Len(sorted))

RECURSIVE sort_by_mileage(_, _)
\* trains.sort(key=lambda x: x['mileage'], reverse=reverse)
sort_by_mileage(trains, reverse) ==
    IF trains = <<>> THEN <<>>
    ELSE insert_by_mileage(sort_by_mileage(SubSeq(trains, 1, Len(trains) - 1), reverse),
                           trains[Len(trains)], reverse)

\* Variant of ranked_list: the service bucket is sorted ascending for any route
ranked_list_ascending_only(details, long) ==
    sort_by_mileage(bucket(details, "Revenue Service"), FALSE)
    \o sort_by_mileage(bucket(details, "Standby"), FALSE)
    \o sort_by_mileage(bucket(details, "Maintenance"), FALSE)

\* final_ranked_list = service_trains + standby_trains + maintenance_trains
ranked_list(details, long) ==
    sort_by_mileage(bucket(details, "Revenue Service"), ~long)
    \o sort_by_mileage(bucket(details, "Standby"), FALSE)
    \o sort_by_mileage(bucket(details, "Maintenance"), FALSE)

\* train['mileage'] < avg_fleet_mileage
below_average(d, mileage) ==
    mileage * Len(d.trainsets)
        < SumSeq([j \in DOMAIN d.trainsets |-> d.trainsets[j].cumulative_mileage_km])

\* train['mileage'] > avg_fleet_mileage
over_average(d, mileage) ==
    mileage * Len(d.trainsets)
        > SumSeq([j \in DOMAIN d.trainsets |-> d.trainsets[j].cumulative_mileage_km])

\* Variant of reason_cli: the status is looked at before the verdict
reason_cli_status_first(d, train) ==
    IF train.status = "Maintenance"
    THEN [text |-> "Scheduled work", hrs |-> train.pending_work_hrs]
    ELSE IF ~train.eligibility.is_eligible
    THEN [text |-> train.eligibility.reason]
    ELSE IF train.status = "Revenue Service"
    THEN [text |-> "Good for this route",
          mileage_status |-> IF below_average(d, train.mileage)
                             THEN "Low Mileage" ELSE "High Mileage"]
    ELSE IF over_average(d, train.mileage)
    THEN [text |-> "Eligible, but high mileage (held for balancing)"]
    ELSE [text |-> "Eligible, held as operational spare"]

\* solver2.py: the reasoning printed for one ranked train
reason_cli(d, train) ==
    IF ~train.eligibility.is_eligible
    THEN [text |-> train.eligibility.reason]
    ELSE IF train.status = "Revenue Service"
    THEN [text |-> "Good for this route",
          mileage_status |-> IF below_average(d, train.mileage)
                             THEN "Low Mileage" ELSE "High Mileage"]
    ELSE IF train.status = "Maintenance"
    THEN [text |-> "Scheduled work", hrs |-> train.pending_work_hrs]
    ELSE IF train.status = "Standby"
    THEN (IF over_average(d, train.mileage)
          THEN [text |-> "Eligible, but high mileage (held for balancing)"]
          ELSE [text |-> "Eligible, held as operational spare"])
    ELSE [text |-> ""]

\* app.py: the reasoning shown for one ranked train
reason_tab3(d, train) ==
    IF ~train.eligibility.is_eligible
    THEN [text |-> train.eligibility.reason]
    ELSE IF train.status = "Revenue Service"
    THEN [text |-> "Ready for service",
          mileage_status |-> IF below_average(d, train.mileage)
                             THEN "Low Mileage" ELSE "High Mileage"]
    ELSE IF train.status = "Maintenance"
    THEN [text |-> "Scheduled maintenance", hrs |-> train.pending_work_hrs]
    ELSE IF train.status = "Standby"
    THEN (IF over_average(d, train.mileage)
          THEN [text |-> "Eligible, held for fleet balancing (high mileage)"]
          ELSE [text |-> "Eligible operational spare"])
    ELSE [text |-> ""]

\* solver2.py: the rows printed, for i, train in enumerate(final_ranked_list, 1)
printed_rows(d, ranked) ==
    [i \in DOMAIN ranked |->
        [rank             |-> i,
         id               |-> ranked[i].id,
         status           |-> ranked[i].status,
         next_cert_expiry |-> ranked[i].next_cert_expiry,
         pending_work_hrs |-> ranked[i].pending_work_hrs,
         reason           |-> reason_cli(d, ranked[i])]]

\* app.py: status_display, the status behind a colour mark; "(green)",
\* "(yellow)" and "(red)" stand for the three emoji of the source
status_display(st) ==
    IF st = "Revenue Service" THEN "(green) Revenue Service"
    ELSE IF st = "Standby" THEN "(yellow) Standby"
    ELSE "(red) Maintenance"

\* Variant of display_data: the status column has no branch for Standby
display_data_two_marks(d, ranked) ==
    [i \in DOMAIN ranked |->
        [rank             |-> i,
         id               |-> ranked[i].id,
         status           |-> IF ranked[i].status = "Revenue Service"
                              THEN "(green) Revenue Service" ELSE "(red) Maintenance",
         next_cert_expiry |-> ranked[i].next_cert_expiry,
         pending_work_hrs |-> ranked[i].pending_work_hrs,
         reason           |-> reason_tab3(d, ranked[i])]]

\* app.py: display_data, for i, train in enumerate(final_ranked_list, 1)
display_data(d, ranked) ==
    [i \in DOMAIN ranked |->
        [rank             |-> i,
         id               |-> ranked[i].id,
         status           |-> status_display(ranked[i].status),
         next_cert_expiry |-> ranked[i].next_cert_expiry,
         pending_work_hrs |-> ranked[i].pending_work_hrs,
         reason           |-> reason_tab3(d, ranked[i])]]

(***************************************************************************)
(* Input datasets.  The rows of one train are built from a sequence of     *)
(* expiry dates and a type scheme: "distinct" cycles through the required  *)
(* certificate types, "same" repeats the first one.                        *)
(***************************************************************************)
CertTypes == <<"Rolling_Stock", "Signalling", "Telecom">>

ExpiryDates == {Today - 1, Today, Today + 1}

TypeSchemes == {"distinct", "same"}

CertRows(train_id, dates, scheme) ==
    [i \in DOMAIN dates |->
        [trainset_id      |-> train_id,
         certificate_type |-> IF scheme = "distinct"
                              THEN CertTypes[((i - 1) % Len(CertTypes)) + 1]
                              ELSE CertTypes[1],
         expiry_date      |-> dates[i]]]

JobRow(train_id, st, crit, hours) ==
    [trainset_id |-> train_id, status |-> st, is_critical |-> crit,
     required_man_hours |-> hours]

JobShapes == [status : {"OPEN", "CLOSED"}, is_critical : BOOLEAN, hours : {4}]

JobRows(train_id, shapes) ==
    [i \in DOMAIN shapes |->
        JobRow(train_id, shapes[i].status, shapes[i].is_critical, shapes[i].hours)]

ResourceRows(bays, manhours) ==
    << [resource_id |-> "IBL_Bays", available_capacity |-> bays],
       [resource_id |-> "Cleaning_Staff_ManHours", available_capacity |-> manhours] >>

\* depot_layout_costs.csv of a two-track depot
\* A location name is a stem and a number ("IBL_Bay" 1 is IBL_Bay_1)
Loc(stem, no) == [stem |-> stem, no |-> no]

LayoutRows ==
    << [from_location |-> Loc("Stabling_Track", 1), to_location |-> Loc("IBL_Bay", 1),
        shunting_cost |-> 5],
       [from_location |-> Loc("Stabling_Track", 2), to_location |-> Loc("IBL_Bay", 1),
        shunting_cost |-> 8],
       [from_location |-> Loc("IBL_Bay", 1), to_location |-> Loc("Stabling_Track", 1),
        shunting_cost |-> 3],
       [from_location |-> Loc("Stabling_Track", 1), to_location |-> Loc("Washing_Line", 1),
        shunting_cost |-> 9] >>

\* The datasets the evaluation harness works on: T1 is the train under
\* evaluation, T2 a train whose rows share the tables with it.
OtherTrainRows ==
    { [certs |-> <<>>, jobs |-> <<>>],
      [certs |-> CertRows("T2", <<Today + 1, Today + 1, Today + 1>>, "distinct"),
       jobs  |-> <<JobRow("T2", "OPEN", TRUE, 4)>>],
      [certs |-> CertRows("T2", <<Today - 1, Today + 1, Today + 1>>, "distinct"),
       jobs  |-> <<>>] }

EligDatasets ==
    { [trainsets    |-> << [trainset_id |-> "T1", cumulative_mileage_km |-> 100000],
                           [trainset_id |-> "T2", cumulative_mileage_km |-> 120000] >>,
       certificates |-> o.certs \o CertRows("T1", dates, scheme),
       job_cards    |-> JobRows("T1", shapes) \o o.jobs,
       slas         |-> <<>>,
       resources    |-> ResourceRows(1, 8),
       layout_costs |-> LayoutRows] :
      o \in OtherTrainRows, dates \in SeqsUpTo(ExpiryDates, MaxCerts),
      scheme \in TypeSchemes, shapes \in SeqsUpTo(JobShapes, MaxJobs) }

(***************************************************************************)
(* The evaluation harness: the two evaluators are called, any number of    *)
(* times and on any day, on one set of datasets.                           *)
(***************************************************************************)
\* The results of the pipeline stages that have not run
NotRun ==
    /\ shunting_costs = None
    /\ status = "NOT_RUN"
    /\ values = None
    /\ solution = None
    /\ required_hours = None
    /\ selected_line = None
    /\ final_ranked_list = None
    /\ printed = None

InitElig ==
    /\ runs = <<>>
    /\ scenario = None
    /\ sidebar_line = None
    /\ prog = "harness"
    /\ pc = "loaded"
    /\ clock = Today
    /\ data \in EligDatasets
    /\ eligibility_details = None
    /\ eligibility = None
    /\ evals = <<>>
    /\ lines = METRO_LINES
    /\ NotRun

\* eligibility_details = preprocess_data_with_reasons(data_frames)
EvalWithReasons ==
    /\ prog = "harness"
    /\ Len(evals) < MaxEvals
    /\ eligibility_details' = preprocess_data_with_reasons(data)
    /\ evals' = Append(evals, [fn  |-> "preprocess_data_with_reasons",
                               ref |-> Today,
                               out |-> eligibility_details'])
    /\ UNCHANGED <<prog, pc, clock, data, eligibility, solveVars, rankVars>>
    /\ UNCHANGED <<runs, uiVars>>

\* eligibility_dict = preprocess_data(data_frames)
EvalLegacy ==
    /\ prog = "harness"
    /\ Len(evals) < MaxEvals
    /\ eligibility' = preprocess_data(data, clock)
    /\ evals' = Append(evals, [fn  |-> "preprocess_data",
                               ref |-> clock,
                               out |-> eligibility'])
    /\ UNCHANGED <<prog, pc, clock, data, eligibility_details, solveVars, rankVars>>
    /\ UNCHANGED <<runs, uiVars>>

\* midnight passes: datetime.date.today() and datetime.now().date() move on
Tick ==
    /\ prog \in {"harness", "app"}
    /\ clock < Today + MaxTicks
    /\ clock' = clock + 1
    /\ UNCHANGED <<prog, pc, data, evalVars, solveVars, rankVars>>
    /\ UNCHANGED <<runs, uiVars>>

NextElig == EvalWithReasons \/ EvalLegacy \/ Tick

SpecElig == InitElig /\ [][NextElig]_vars

(***************************************************************************)
(* The pipeline: one run of solver2.py's or solver.py's main block, or of  *)
(* a caller ("api") that hands solve_primary_assignment a verdict dict of  *)
(* its own, which has no entry for the last train of the roster, or a      *)
(* session of the dashboard ("app").                                       *)
(***************************************************************************)
Valid3     == [dates |-> <<Today + 1, Today + 1, Today + 1>>, scheme |-> "distinct"]
OneExpired == [dates |-> <<Today + 1, Today - 1, Today + 1>>, scheme |-> "distinct"]
TwoCerts   == [dates |-> <<Today + 1, Today + 1>>, scheme |-> "distinct"]

NoJobs      == <<>>
Critical4h  == << [status |-> "OPEN", is_critical |-> TRUE, hours |-> 4] >>
Routine3h   == << [status |-> "OPEN", is_critical |-> FALSE, hours |-> 3] >>

NoSla    == <<>>
UnmetSla == << [current_exposure_hours |-> 10, target_exposure_hours |-> 20,
                penalty_per_hour |-> 2] >>
MetSla   == << [current_exposure_hours |-> 20, target_exposure_hours |-> 20,
                penalty_per_hour |-> 2] >>

Profile(m, c, j, s) == [mileage |-> m, certs |-> c, jobs |-> j, sla |-> s]

\* The trains a roster is drawn from
TrainProfiles ==
    { Profile(100001, Valid3, NoJobs, NoSla),
      Profile(140000, Valid3, NoJobs, NoSla),
      Profile(100001, Valid3, NoJobs, UnmetSla),
      Profile(140000, Valid3, NoJobs, MetSla),
      Profile(140000, Valid3, Routine3h, NoSla),
      Profile(100001, Valid3, Critical4h, NoSla),
      Profile(140000, Valid3, Critical4h, UnmetSla),
      Profile(140000, OneExpired, NoJobs, NoSla),
      Profile(100001, TwoCerts, Critical4h, UnmetSla),
      Profile(700000, Valid3, NoJobs, NoSla) }

\* (IBL_Bays, Cleaning_Staff_ManHours)
Capacities == { <<0, 8>>, <<1, 3>>, <<1, 8>>, <<2, 4>> }

SlaRows(train_id, s) ==
    [i \in DOMAIN s |->
        [trainset_id            |-> train_id,
         current_exposure_hours |-> s[i].current_exposure_hours,
         target_exposure_hours  |-> s[i].target_exposure_hours,
         penalty_per_hour       |-> s[i].penalty_per_hour]]

\* The six tables of a roster whose i-th train has the profile ps[i]
Dataset(ps, cap) ==
    [trainsets    |-> [i \in DOMAIN ps |->
                          [trainset_id |-> AllTrainIds[i],
                           cumulative_mileage_km |-> ps[i].mileage]],
     certificates |-> Flatten([i \in DOMAIN ps |->
                          CertRows(AllTrainIds[i], ps[i].certs.dates, ps[i].certs.scheme)]),
     job_cards    |-> Flatten([i \in DOMAIN ps |-> JobRows(AllTrainIds[i], ps[i].jobs)]),
     slas         |-> Flatten([i \in DOMAIN ps |-> SlaRows(AllTrainIds[i], ps[i].sla)]),
     resources    |-> ResourceRows(cap[1], cap[2]),
     layout_costs |-> LayoutRows]

\* Rosters around the bound of the mileage deviation: two trains 200000.5 km
\* from their average, two trains 200001 km from it, and three trains of
\* which one is far from the average and two are near it
OutlierRosters ==
    { << Profile(100001, Valid3, NoJobs, NoSla), Profile(500002, Valid3, NoJobs, NoSla) >>,
      << Profile(100001, Valid3, NoJobs, NoSla), Profile(500003, Valid3, NoJobs, NoSla) >>,
      << Profile(100001, Valid3, NoJobs, NoSla), Profile(100001, Valid3, NoJobs, NoSla),
         Profile(700000, Valid3, NoJobs, NoSla) >> }

\* The scenarios of a pipeline run: a roster of NumTrains trains, a roster
\* file with no row, or one of the rosters above
PipeDatasets ==
    {Dataset(ps, cap) : ps \in [1..NumTrains -> TrainProfiles], cap \in Capacities}
    \cup {Dataset(<<>>, cap) : cap \in Capacities}
    \cup {Dataset(ps, <<1, 8>>) : ps \in OutlierRosters}

Init ==
    /\ runs = <<>>
    /\ prog \in {"solver2", "solver", "api", "app"}
    /\ scenario = None
    /\ sidebar_line = IF prog = "app" THEN METRO_LINES[1].name ELSE None
    /\ pc = "start"
    /\ clock = Today
    /\ data = None
    /\ eligibility_details = None
    /\ eligibility = None
    /\ evals = <<>>
    /\ lines = METRO_LINES
    /\ NotRun

\* Variant of load_data: after an unreadable file the tables read so far are
\* kept and evaluated
load_data_partial ==
    /\ pc = "start"
    /\ prog # "app"
    /\ \/ /\ data' = None
          /\ pc' = "load_failed"
          /\ UNCHANGED evalVars
       \/ /\ data' \in PipeDatasets
          /\ eligibility_details' = preprocess_data_with_reasons(data')
          /\ pc' = IF prog = "solver" THEN "crashed" ELSE "load_failed"
          /\ UNCHANGED <<eligibility, evals>>
       \/ /\ data' \in PipeDatasets
          /\ pc' = "loaded"
          /\ UNCHANGED evalVars
    /\ UNCHANGED <<prog, clock, solveVars, rankVars>>
    /\ UNCHANGED <<runs, uiVars>>

\* load_data(SCENARIO_FOLDER): the directory is missing, a file of it cannot
\* be read, or the six tables are returned.  solver2.py returns None for an
\* unreadable file; solver.py lets pd.read_csv's exception end the run.
load_data ==
    /\ pc = "start"
    /\ prog # "app"
    /\ \/ /\ data' = None
          /\ pc' = "load_failed"
       \/ /\ data' = None
          /\ pc' = IF prog = "solver" THEN "crashed" ELSE "load_failed"
       \/ /\ data' \in PipeDatasets
          /\ pc' = "loaded"
    /\ UNCHANGED <<prog, clock, evalVars, solveVars, rankVars>>
    /\ UNCHANGED <<runs, uiVars>>

\* The verdict dict an outside caller passes: no entry for the last train
without_last(d, ed) ==
    IF d.trainsets = <<>> THEN ed
    ELSE [t \in DOMAIN ed \ {train_ids(d)[Len(d.trainsets)]} |-> ed[t]]

\* if data_frames: eligibility_details = preprocess_data_with_reasons(...);
\* shunting_costs_dict = preprocess_shunting_costs(...)
Preprocess ==
    /\ pc = "loaded"
    /\ prog \in {"solver2", "api"}
    /\ eligibility_details' =
          IF prog = "api" THEN without_last(data, preprocess_data_with_reasons(data))
          ELSE preprocess_data_with_reasons(data)
    /\ shunting_costs' = preprocess_shunting_costs(data.layout_costs)
    /\ pc' = "preprocessed"
    /\ UNCHANGED <<prog, clock, data, eligibility, evals, status, values,
                   solution, required_hours, rankVars>>
    /\ UNCHANGED <<runs, uiVars>>

\* solver.py: eligibility_dict = preprocess_data(...); shunting_costs_dict = ...
PreprocessLegacy ==
    /\ pc = "loaded"
    /\ prog = "solver"
    /\ eligibility' = preprocess_data(data, clock)
    /\ shunting_costs' = preprocess_shunting_costs(data.layout_costs)
    /\ pc' = "preprocessed"
    /\ UNCHANGED <<prog, clock, data, eligibility_details, evals, status, values,
                   solution, required_hours, rankVars>>
    /\ UNCHANGED <<runs, uiVars>>

\* solve_primary_assignment(data_frames, eligibility_details, shunting_costs_dict)
solve_primary_assignment ==
    /\ pc = "preprocessed"
    /\ prog \in {"solver2", "api"}
    /\ \E r \in solver_solve(Feasible(data, eligibility_details),
                             [a \in Feasible(data, eligibility_details) |->
                                 objective(data, eligibility_details, shunting_costs, a)]) :
          /\ status' = r.status
          /\ values' = r.values
          /\ solution' = primary_return(data, r).solution
          /\ required_hours' = primary_return(data, r).required_hours
          /\ pc' = IF usable(r.status) THEN "solved" ELSE "no_solution"
    /\ UNCHANGED <<prog, clock, data, evalVars, shunting_costs, rankVars>>
    /\ UNCHANGED <<runs, uiVars>>

\* create_and_solve_model(data_frames, eligibility_dict, shunting_costs_dict)
create_and_solve_model ==
    /\ pc = "preprocessed"
    /\ prog = "solver"
    /\ \E r \in solver_solve(FeasibleLegacy(data, eligibility),
                             [a \in FeasibleLegacy(data, eligibility) |->
                                 objective_legacy(data, shunting_costs, a)]) :
          /\ status' = r.status
          /\ values' = r.values
          /\ IF usable(r.status)
             THEN /\ solution' = decode_solution_legacy(data, eligibility, r.values)
                  /\ pc' = "solved"
             ELSE /\ solution' = None
                  /\ pc' = "no_solution"
    /\ UNCHANGED <<prog, clock, data, evalVars, shunting_costs, required_hours,
                   rankVars>>
    /\ UNCHANGED <<runs, uiVars>>

\* The body of show_train_recommendations_for_line for the route typed in:
\* the details, the buckets, the sorts and the printed rows.  The call and
\* the list it built are kept in the history.
recommend(choice) ==
    /\ selected_line' = lines[choice].name
    /\ final_ranked_list' =
          ranked_list(all_trains_details(data, eligibility_details,
                                         required_hours, solution, Today),
                      is_long_line(lines, selected_line'))
    /\ printed' = printed_rows(data, final_ranked_list')
    /\ evals' = Append(evals, [fn  |-> "show_train_recommendations_for_line",
                               ref |-> [lines |-> lines, selected_line |-> selected_line'],
                               out |-> final_ranked_list'])
    /\ pc' = "ranked"

\* Variant of show_train_recommendations_for_line: without the early return,
\* a missing assignment is ranked as a roster on standby
show_train_recommendations_guessing ==
    /\ prog = "api"
    /\ pc = "no_solution"
    /\ solution = None
    /\ \E choice \in 1..Len(lines) :
          /\ selected_line' = lines[choice].name
          /\ final_ranked_list' =
                ranked_list(all_trains_details(data, preprocess_data_with_reasons(data),
                                               required_hours_of(data),
                                               [t \in Range(train_ids(data)) |-> "Standby"],
                                               Today),
                            is_long_line(lines, selected_line'))
          /\ printed' = printed_rows(data, final_ranked_list')
          /\ pc' = "ranked"
    /\ UNCHANGED <<prog, clock, data, evalVars, solveVars, lines>>
    /\ UNCHANGED <<runs, uiVars>>

\* show_train_recommendations_for_line(primary_solution, eligibility_details,
\* required_hours, data_frames, lines).  __main__ calls it if primary_solution
\* is neither None nor empty; an outside caller calls it with whatever
\* solve_primary_assignment returned.  choice is the number typed in, 0
\* standing for an input that is no number of the list.  A train of the
\* assignment without an entry in eligibility_details ends the loop over the
\* assignment with a KeyError.
show_train_recommendations_for_line ==
    /\ \/ prog = "solver2" /\ pc = "solved" /\ solution # None /\ DOMAIN solution # {}
       \/ prog = "api" /\ pc \in {"solved", "no_solution"}
    /\ IF solution = None \/ DOMAIN solution = {}
       THEN /\ pc' = "rank_refused"
            /\ UNCHANGED <<selected_line, final_ranked_list, printed, evals>>
       ELSE \E choice \in 0..Len(lines) :
               IF choice = 0
               THEN /\ pc' = "rank_exit"
                    /\ UNCHANGED <<selected_line, final_ranked_list, printed, evals>>
               ELSE IF \E t \in DOMAIN solution : t \notin DOMAIN eligibility_details
               THEN /\ pc' = "rank_crashed"
                    /\ UNCHANGED <<selected_line, final_ranked_list, printed, evals>>
               ELSE recommend(choice)
    /\ UNCHANGED <<prog, clock, data, eligibility_details, eligibility, solveVars, lines>>
    /\ UNCHANGED <<runs, uiVars>>

\* The scenario folders next to app.py.  capacity is (IBL_Bays,
\* Cleaning_Staff_ManHours); a folder that is not readable lacks a file.
AppFolders ==
    << [name |-> "bottleneck_case", readable |-> TRUE,
        roster |-> << Profile(100001, Valid3, NoJobs, NoSla),
                      Profile(140000, Valid3, Critical4h, UnmetSla) >>],
       [name |-> "balanced_case", readable |-> TRUE,
        roster |-> << Profile(140000, Valid3, Routine3h, NoSla),
                      Profile(100001, Valid3, NoJobs, UnmetSla) >>],
       [name |-> "outlier_case", readable |-> TRUE,
        roster |-> << Profile(100001, Valid3, NoJobs, NoSla),
                      Profile(700000, Valid3, NoJobs, NoSla) >>],
       [name |-> "empty_case", readable |-> TRUE, roster |-> <<>>],
       [name |-> "broken_case", readable |-> FALSE, roster |-> <<>>] >>

\* load_data(selected_scenario): the six tables of the folder, or None
load_scenario(name) ==
    LET f == CHOOSE x \in Range(AppFolders) : x.name = name
    IN  IF f.readable THEN Dataset(f.roster, <<1, 8>>) ELSE None

\* list(METRO_LINES.keys()), the options of the route selectbox
line_options == {METRO_LINES[i].name : i \in DOMAIN METRO_LINES}

\* Variant of displayed_line: the results are shown for the selectbox value
displayed_line_of_sidebar(stored, sidebar) == sidebar

\* app.py, Display Results: selected_line = st.session_state.selected_line
\* replaces the selectbox value before the tabs are drawn
displayed_line(stored, sidebar) == stored

\* app.py, tab3: the ranked list of a stored assignment for a route
tab3_list(d, ed, rh, sol, line, today) ==
    ranked_list(all_trains_details(d, ed, rh, sol, today),
                is_long_line(METRO_LINES, line))

\* app.py, Display Results, the end of every run of the script: nothing is
\* drawn while optimization_results is None; the metrics above the tabs fail
\* with a KeyError on an assignment of no train, before tab3 is reached;
\* otherwise tab3 ranks the stored assignment and shows display_data.
display_results(d, ed, rh, sol, stored_line) ==
    IF sol = None \/ DOMAIN sol = {}
    THEN /\ final_ranked_list' = None
         /\ printed' = None
    ELSE /\ final_ranked_list' =
               tab3_list(d, ed, rh, sol, displayed_line(stored_line, sidebar_line'), clock)
         /\ printed' = display_data(d, final_ranked_list')

\* Variant of run_optimization: the tables, the verdicts and the selections
\* are stored as soon as they are known, the assignment if there is one
run_optimization_stores_early ==
    /\ prog = "app"
    /\ sidebar_line' = sidebar_line
    /\ \E f \in Range(AppFolders) :
          LET d == load_scenario(f.name) IN
          IF d = None
          THEN /\ pc' = "load_failed"
               /\ UNCHANGED <<data, eligibility_details, solveVars, selected_line, scenario>>
               /\ display_results(data, eligibility_details, required_hours, solution,
                                  selected_line)
          ELSE LET ed == preprocess_data_with_reasons(d)
                   sc == preprocess_shunting_costs(d.layout_costs)
                   F  == Feasible(d, ed)
               IN  \E r \in solver_solve(F, [a \in F |-> objective(d, ed, sc, a)]) :
                      /\ data' = d
                      /\ eligibility_details' = ed
                      /\ scenario' = f.name
                      /\ selected_line' = sidebar_line
                      /\ IF primary_return(d, r).solution # None
                         THEN /\ shunting_costs' = sc
                              /\ status' = r.status
                              /\ values' = r.values
                              /\ solution' = primary_return(d, r).solution
                              /\ required_hours' = primary_return(d, r).required_hours
                              /\ pc' = "solved"
                         ELSE /\ pc' = "no_solution"
                              /\ UNCHANGED solveVars
                      /\ display_results(data', eligibility_details', required_hours',
                                         IF solution' = None \/ DOMAIN solution' # DOMAIN ed
                                         THEN None ELSE solution',
                                         selected_line')
    /\ UNCHANGED <<prog, clock, eligibility, evals, lines, runs>>

\* Variant of run_optimization: optimization_results is assigned whatever
\* solve_primary_assignment returned, None as well
run_optimization_stores_none ==
    /\ prog = "app"
    /\ sidebar_line' = sidebar_line
    /\ \E f \in Range(AppFolders) :
          LET d == load_scenario(f.name) IN
          IF d = None
          THEN /\ pc' = "load_failed"
               /\ UNCHANGED <<data, eligibility_details, solveVars, selected_line, scenario>>
               /\ display_results(data, eligibility_details, required_hours, solution,
                                  selected_line)
          ELSE LET ed == preprocess_data_with_reasons(d)
                   sc == preprocess_shunting_costs(d.layout_costs)
                   F  == Feasible(d, ed)
               IN  \E r \in solver_solve(F, [a \in F |-> objective(d, ed, sc, a)]) :
                      IF primary_return(d, r).solution # None
                      THEN /\ data' = d
                           /\ eligibility_details' = ed
                           /\ shunting_costs' = sc
                           /\ status' = r.status
                           /\ values' = r.values
                           /\ solution' = primary_return(d, r).solution
                           /\ required_hours' = primary_return(d, r).required_hours
                           /\ scenario' = f.name
                           /\ selected_line' = sidebar_line
                           /\ pc' = "solved"
                           /\ display_results(d, ed, required_hours', solution', selected_line')
                      ELSE /\ pc' = "no_solution"
                           /\ solution' = None
                           /\ UNCHANGED <<data, eligibility_details, shunting_costs, status,
                                          values, required_hours, selected_line, scenario>>
                           /\ display_results(data, eligibility_details, required_hours,
                                              None, selected_line)
    /\ UNCHANGED <<prog, clock, eligibility, evals, lines, runs>>

\* app.py, one run of the script with the Optimize button pressed, for the
\* scenario folder f and the route the selectbox holds: load, evaluate,
\* solve, store the six session fields if an assignment came back (an
\* error message is all a failure leaves), then Display Results.
run_optimization ==
    /\ prog = "app"
    /\ sidebar_line' = sidebar_line
    /\ \E f \in Range(AppFolders) :
          LET d == load_scenario(f.name) IN
          IF d = None
          THEN /\ pc' = "load_failed"
               /\ UNCHANGED <<data, eligibility_details, solveVars, selected_line, scenario>>
               /\ display_results(data, eligibility_details, required_hours, solution,
                                  selected_line)
          ELSE LET ed == preprocess_data_with_reasons(d)
                   sc == preprocess_shunting_costs(d.layout_costs)
                   F  == Feasible(d, ed)
               IN  \E r \in solver_solve(F, [a \in F |-> objective(d, ed, sc, a)]) :
                      IF primary_return(d, r).solution # None
                      THEN /\ data' = d
                           /\ eligibility_details' = ed
                           /\ shunting_costs' = sc
                           /\ status' = r.status
                           /\ values' = r.values
                           /\ solution' = primary_return(d, r).solution
                           /\ required_hours' = primary_return(d, r).required_hours
                           /\ scenario' = f.name
                           /\ selected_line' = sidebar_line
                           /\ pc' = "solved"
                           /\ display_results(d, ed, required_hours', solution', selected_line')
                      ELSE /\ pc' = "no_solution"
                           /\ UNCHANGED <<data, eligibility_details, solveVars,
                                          selected_line, scenario>>
                           /\ display_results(data, eligibility_details, required_hours,
                                              solution, selected_line)
    /\ UNCHANGED <<prog, clock, eligibility, evals, lines, runs>>

\* app.py, one run of the script with the Clear button pressed: two of the
\* six fields are reset and st.rerun() runs the script again, which finds
\* no assignment to display
clear_results ==
    /\ prog = "app"
    /\ solution' = None
    /\ data' = None
    /\ sidebar_line' = sidebar_line
    /\ display_results(data', eligibility_details, required_hours, solution', selected_line)
    /\ pc' = "idle"
    /\ UNCHANGED <<prog, clock, evalVars, shunting_costs, status, values, required_hours,
                   lines, selected_line, runs, scenario>>

\* app.py, one run of the script after another route was picked in the
\* selectbox: no button is pressed, and Display Results comes next
select_line ==
    /\ prog = "app"
    /\ sidebar_line' \in line_options \ {sidebar_line}
    /\ display_results(data, eligibility_details, required_hours, solution, selected_line)
    /\ pc' = "idle"
    /\ UNCHANGED <<prog, clock, data, evalVars, solveVars, lines, selected_line, runs,
                   scenario>>

\* app.py, one run of the script caused by any other widget, with an
\* assignment stored that tab3 can rank.  The call and the list it built
\* are kept in the history.
tab3_ranking ==
    /\ prog = "app"
    /\ solution # None
    /\ DOMAIN solution # {}
    /\ Len(evals) < MaxEvals
    /\ sidebar_line' = sidebar_line
    /\ display_results(data, eligibility_details, required_hours, solution, selected_line)
    /\ evals' = Append(evals, [fn  |-> "tab3",
                               ref |-> [lines |-> METRO_LINES, selected_line |-> selected_line],
                               out |-> final_ranked_list'])
    /\ pc' = "ranked"
    /\ UNCHANGED <<prog, clock, data, eligibility_details, eligibility, solveVars,
                   lines, selected_line, runs, scenario>>

Next ==
    \/ load_data
    \/ Preprocess
    \/ PreprocessLegacy
    \/ solve_primary_assignment
    \/ create_and_solve_model
    \/ show_train_recommendations_for_line
    \/ run_optimization
    \/ clear_results
    \/ select_line

Spec == Init /\ [][Next]_vars

(***************************************************************************)
(* The ranker on its own: any assignment the solver can return for a       *)
(* roster of eligible trains, ranked by solver2.py for a route of its      *)
(* lines argument, or by the dashboard's tab3 for the stored route.        *)
(***************************************************************************)
RankProfiles ==
    { Profile(m, Valid3, NoJobs, NoSla) : m \in {100001, 140000, 180000} }

RankDatasets ==
    {Dataset(ps, <<NumRanked, 0>>) : ps \in [1..NumRanked -> RankProfiles]}

\* Route tables a caller may hand to the ranker: the built-in one, and one
\* with a route whose distance is the mean itself
RouteTables ==
    { METRO_LINES,
      << [name |-> "Feeder", km |-> 100], [name |-> "Loop", km |-> 200],
         [name |-> "Trunk", km |-> 300] >> }

InitRank ==
    /\ runs = <<>>
    /\ prog \in {"solver2", "app"}
    /\ scenario = IF prog = "app" THEN "rank_case" ELSE None
    /\ sidebar_line = IF prog = "app" THEN METRO_LINES[1].name ELSE None
    /\ pc = "solved"
    /\ clock = Today
    /\ data \in RankDatasets
    /\ eligibility_details = preprocess_data_with_reasons(data)
    /\ eligibility = None
    /\ evals = <<>>
    /\ shunting_costs = preprocess_shunting_costs(data.layout_costs)
    /\ status = "FEASIBLE"
    /\ values \in Feasible(data, eligibility_details)
    /\ solution = decode_solution(data, values)
    /\ required_hours = required_hours_of(data)
    /\ lines \in IF prog = "app" THEN {METRO_LINES} ELSE RouteTables
    /\ selected_line \in IF prog = "app" THEN line_options ELSE {None}
    /\ final_ranked_list = None
    /\ printed = None

\* A caller that holds an assignment calls the ranker again, for any route
show_again ==
    /\ pc = "ranked"
    /\ prog = "solver2"
    /\ Len(evals) < MaxEvals
    /\ \E choice \in 1..Len(lines) : recommend(choice)
    /\ UNCHANGED <<prog, clock, data, eligibility_details, eligibility, solveVars, lines>>
    /\ UNCHANGED <<runs, uiVars>>

NextRank == show_train_recommendations_for_line \/ show_again \/ tab3_ranking \/ Tick

SpecRank == InitRank /\ [][NextRank]_vars

(***************************************************************************)
(* Two runs of the pipeline going on at once, as when two requests reach a *)
(* service that calls load_data, the two preprocess functions and          *)
(* solve_primary_assignment.  Every name the functions assign is a local   *)
(* of the call; runs[r] holds the locals of run r.  A run takes its steps  *)
(* in the order of the code, and the steps of the two runs interleave in   *)
(* any order.                                                              *)
(***************************************************************************)
RunIds == {1, 2}

\* The trains the scenarios of concurrent runs are drawn from
RunProfiles ==
    { Profile(100001, Valid3, NoJobs, NoSla),
      Profile(140000, TwoCerts, Critical4h, UnmetSla) }

RunDatasets ==
    {Dataset(ps, <<1, 3>>) : ps \in [1..NumTrains -> RunProfiles]}

\* The locals of a run that has not started
new_run ==
    [pc |-> "start", data |-> None, eligibility_details |-> None,
     shunting_costs |-> None, model |-> None, status |-> "NOT_RUN",
     solution |-> None, required_hours |-> None]

InitRuns ==
    /\ scenario = None
    /\ sidebar_line = None
    /\ prog = "service"
    /\ pc = "start"
    /\ clock = Today
    /\ data = None
    /\ eligibility_details = None
    /\ eligibility = None
    /\ evals = <<>>
    /\ lines = METRO_LINES
    /\ NotRun
    /\ runs = [r \in RunIds |-> new_run]

\* model = cp_model.CpModel(), assignments = {} and everything added to
\* them: the decision variables and constraints as the set of assignments
\* that satisfy them, and the objective as the cost of each
build_model(d, ed, sc) ==
    [feasible |-> Feasible(d, ed),
     cost     |-> [a \in Feasible(d, ed) |-> objective(d, ed, sc, a)]]

\* Variant of model_of: the model is a module-level name, bound to the model
\* built last by any run
model_of_shared(r) ==
    IF \E q \in RunIds \ {r} : runs[q].model # None
    THEN runs[CHOOSE q \in RunIds \ {r} : runs[q].model # None].model
    ELSE runs[r].model

\* The model solver.solve(model) is handed in run r: the local of that call
model_of(r) == runs[r].model

\* data_frames = load_data(SCENARIO_FOLDER), in run r
run_load_data(r) ==
    /\ runs[r].pc = "start"
    /\ \/ runs' = [runs EXCEPT ![r].pc = "load_failed"]
       \/ \E d \in RunDatasets :
             runs' = [runs EXCEPT ![r].data = d, ![r].pc = "loaded"]
    /\ UNCHANGED <<prog, pc, clock, data, evalVars, solveVars, rankVars, uiVars>>

\* The two preprocess calls, in run r
run_preprocess(r) ==
    /\ runs[r].pc = "loaded"
    /\ runs' = [runs EXCEPT
                   ![r].eligibility_details = preprocess_data_with_reasons(runs[r].data),
                   ![r].shunting_costs = preprocess_shunting_costs(runs[r].data.layout_costs),
                   ![r].pc = "preprocessed"]
    /\ UNCHANGED <<prog, pc, clock, data, evalVars, solveVars, rankVars, uiVars>>

\* solve_primary_assignment up to model.Minimize(...), in run r
run_build_model(r) ==
    /\ runs[r].pc = "preprocessed"
    /\ runs' = [runs EXCEPT
                   ![r].model = build_model(runs[r].data, runs[r].eligibility_details,
                                            runs[r].shunting_costs),
                   ![r].pc = "built"]
    /\ UNCHANGED <<prog, pc, clock, data, evalVars, solveVars, rankVars, uiVars>>

\* solver.solve(model) and the return statement, in run r
run_solve(r) ==
    /\ runs[r].pc = "built"
    /\ \E res \in solver_solve(model_of(r).feasible, model_of(r).cost) :
          runs' = [runs EXCEPT
                      ![r].status = res.status,
                      ![r].solution = primary_return(runs[r].data, res).solution,
                      ![r].required_hours = primary_return(runs[r].data, res).required_hours,
                      ![r].pc = "returned"]
    /\ UNCHANGED <<prog, pc, clock, data, evalVars, solveVars, rankVars, uiVars>>

NextRuns ==
    \E r \in RunIds :
        \/ run_load_data(r)
        \/ run_preprocess(r)
        \/ run_build_model(r)
        \/ run_solve(r)

SpecRuns == InitRuns /\ [][NextRuns]_vars

(***************************************************************************)
(* Claims on the EligibilityEvaluator, checked under SpecElig.             *)
(***************************************************************************)
\* What the datasets say about one train, read off the tables directly
CertRowsOf(t) == {i \in DOMAIN data.certificates : data.certificates[i].trainset_id = t}

CertDatesOf(t) == {data.certificates[i].expiry_date : i \in CertRowsOf(t)}

CertTypesOf(t) == {data.certificates[i].certificate_type : i \in CertRowsOf(t)}

HasCriticalOpenJob(t) ==
    \E i \in DOMAIN data.job_cards :
        /\ data.job_cards[i].trainset_id = t
        /\ data.job_cards[i].status = "OPEN"
        /\ data.job_cards[i].is_critical

Roster == {data.trainsets[i].trainset_id : i \in DOMAIN data.trainsets}

\* The evaluations of the history made by solver2.py's evaluator
ReasonEvals == {i \in DOMAIN evals : evals[i].fn = "preprocess_data_with_reasons"}

\* The evaluations of the history made by solver.py's evaluator
LegacyEvals == {i \in DOMAIN evals : evals[i].fn = "preprocess_data"}

\* C6: every verdict carries the one reason the priority order gives:
\* missing certificates (fewer than 3 rows) before expired certificate (an
\* expiry before the reference date) before open critical job card, and
\* eligible otherwise; is_eligible is true exactly for the reason eligible.
C6_ReasonPriority ==
    \A e \in ReasonEvals : \A t \in Roster :
        LET v == evals[e].out[t] IN
        /\ t \in DOMAIN evals[e].out
        /\ v.reason \in {REASON_ELIGIBLE, REASON_MISSING, REASON_EXPIRED, REASON_CRITICAL}
        /\ (v.reason = REASON_MISSING) <=> (Cardinality(CertRowsOf(t)) < 3)
        /\ (v.reason = REASON_EXPIRED) <=>
              /\ Cardinality(CertRowsOf(t)) >= 3
              /\ \E x \in CertDatesOf(t) : x < evals[e].ref
        /\ (v.reason = REASON_CRITICAL) <=>
              /\ Cardinality(CertRowsOf(t)) >= 3
              /\ \A x \in CertDatesOf(t) : x >= evals[e].ref
              /\ HasCriticalOpenJob(t)
        /\ v.is_eligible <=> (v.reason = REASON_ELIGIBLE)

\* C6 witness: a train with fewer than 3 certificates, one of them expired,
\* and an open critical job card has been given the reason of the first rule.
C6_Witness ==
    /\ ReasonEvals # {}
    /\ Cardinality(CertRowsOf("T1")) \in 1..2
    /\ \E x \in CertDatesOf("T1") : x < Today
    /\ HasCriticalOpenJob("T1")
    /\ eligibility_details["T1"] = [is_eligible |-> FALSE, reason |-> REASON_MISSING]
    /\ eligibility_details["T2"].reason = REASON_CRITICAL

\* C7 as claimed: a train with at least 3 certificates, one of which expires
\* exactly on the reference date, gets certificate_expired and is ineligible.
C7_ExpiredOnReferenceDate ==
    \A e \in ReasonEvals : \A t \in Roster :
        (Cardinality(CertRowsOf(t)) >= 3 /\ evals[e].ref \in CertDatesOf(t))
            => evals[e].out[t] = [is_eligible |-> FALSE, reason |-> REASON_EXPIRED]

\* C7 amended: a certificate counts as expired only when its expiry date is
\* strictly before the reference date.  A train with at least 3 certificates
\* gets certificate_expired exactly when one of them expires before the
\* reference date; one whose earliest expiry is the reference date itself is
\* eligible unless it has an open critical job card, for both evaluators.
C7_ExpiredBeforeReferenceDate ==
    /\ \A e \in ReasonEvals : \A t \in Roster :
          Cardinality(CertRowsOf(t)) >= 3 =>
              /\ (evals[e].out[t].reason = REASON_EXPIRED)
                     <=> (\E x \in CertDatesOf(t) : x < evals[e].ref)
              /\ (\A x \in CertDatesOf(t) : x >= evals[e].ref)
                     => (evals[e].out[t].is_eligible <=> ~HasCriticalOpenJob(t))
    /\ \A e \in LegacyEvals : \A t \in Roster :
          (Cardinality(CertRowsOf(t)) >= 3 /\ \A x \in CertDatesOf(t) : x >= evals[e].ref)
              => (evals[e].out[t] <=> ~HasCriticalOpenJob(t))

\* C7 witness: a train with 3 certificates, one expiring on the reference
\* date and none before it, has been evaluated and found eligible.
C7_Witness ==
    /\ ReasonEvals # {}
    /\ Cardinality(CertRowsOf("T1")) >= 3
    /\ Today \in CertDatesOf("T1")
    /\ \A x \in CertDatesOf("T1") : x >= Today
    /\ eligibility_details["T1"] = [is_eligible |-> TRUE, reason |-> REASON_ELIGIBLE]

\* C8 as claimed: a train whose certificate rows cover fewer than 3 distinct
\* certificate types is ineligible with the reason missing_certificates.
C8_DistinctCertificateTypes ==
    \A e \in ReasonEvals : \A t \in Roster :
        Cardinality(CertTypesOf(t)) < 3
            => evals[e].out[t] = [is_eligible |-> FALSE, reason |-> REASON_MISSING]

Statuses == {"Revenue Service", "Standby", "Maintenance"}

\* The decision variable a status stands for
VarOf(st) ==
    CASE st = "Revenue Service" -> "service"
      [] st = "Standby"         -> "standby"
      [] st = "Maintenance"     -> "maintenance"

\* A run of solve_primary_assignment has returned a solution
PrimaryReturned == prog \in {"solver2", "api", "app"} /\ solution # None

\* A run of create_and_solve_model has returned a solution
LegacyReturned == prog = "solver" /\ pc = "solved"

\* The status a returned solution gives train t
StatusIn(t) ==
    IF prog = "solver"
    THEN LET rows == SelectSeq(solution, LAMBDA r : r.Trainset_ID = t)
         IN  rows[1].Assigned_Status
    ELSE solution[t]

\* Man-hours of the OPEN job cards of train t
PendingHours(t) ==
    LET js == {i \in DOMAIN data.job_cards :
                  data.job_cards[i].trainset_id = t /\ data.job_cards[i].status = "OPEN"}
        hs == [i \in js |-> data.job_cards[i].required_man_hours]
        RECURSIVE Sum(_)
        Sum(S) == IF S = {} THEN 0
                  ELSE LET x == CHOOSE y \in S : TRUE IN hs[x] + Sum(S \ {x})
    IN  Sum(js)

\* The capacity row of a resource
Capacity(name) ==
    LET i == CHOOSE j \in DOMAIN data.resources : data.resources[j].resource_id = name
    IN  data.resources[i].available_capacity

\* The trains a returned solution sends to maintenance
InMaintenance == {t \in Roster : StatusIn(t) = "Maintenance"}

\* C1: a solution returned by solve_primary_assignment maps every train of
\* the roster, and nothing else, to one of the three statuses, and that
\* status is the one decision variable the engine set to true for the train.
C1_OneStatusPerVehicle ==
    PrimaryReturned =>
        /\ solution # None
        /\ DOMAIN solution = Roster
        /\ \A t \in Roster :
              /\ solution[t] \in Statuses
              /\ \A n \in VarNames :
                    values[t][n] = IF n = VarOf(solution[t]) THEN 1 ELSE 0

\* C1 witness: a solution has been returned in which one train is in
\* service and another in maintenance.
C1_Witness ==
    /\ PrimaryReturned
    /\ \E t, u \in Roster : solution[t] = "Revenue Service" /\ solution[u] = "Maintenance"

\* C2: in a returned solution no train is in Revenue Service whose verdict
\* says not eligible or that has no verdict entry.
C2_IneligibleNeverInService ==
    /\ PrimaryReturned =>
          \A t \in Roster :
              (t \notin DOMAIN eligibility_details \/ ~eligibility_details[t].is_eligible)
                  => solution[t] # "Revenue Service"
    /\ LegacyReturned =>
          \A t \in Roster : ~eligibility[t] => StatusIn(t) # "Revenue Service"

\* C2 witness: the engine has returned an optimal solution to a caller whose
\* verdict dict has no entry for a train that holds valid certificates and
\* an unmet SLA; the train is not in service.
C2_Witness ==
    /\ prog = "api" /\ pc = "solved" /\ status = "OPTIMAL"
    /\ \E t \in Roster :
          /\ t \notin DOMAIN eligibility_details
          /\ verdict_of(data, t, Today).is_eligible
          /\ \E i \in DOMAIN data.slas : data.slas[i].trainset_id = t
          /\ solution[t] # "Revenue Service"

\* C3: in a returned solution the number of trains in Maintenance is at
\* most the capacity of IBL_Bays (none at all when the capacity is 0).
C3_MaintenanceWithinBays ==
    (PrimaryReturned \/ LegacyReturned) =>
        Cardinality(InMaintenance) <= Capacity("IBL_Bays")

\* C3 witness: two trains with an open critical job card and one bay: the
\* optimal solution sends exactly one of them to maintenance.
C3_Witness ==
    /\ prog = "solver2" /\ pc = "solved" /\ status = "OPTIMAL"
    /\ Capacity("IBL_Bays") = 1
    /\ Cardinality(critically_failed_trains(eligibility_details)) >= 2
    /\ Cardinality(InMaintenance) = 1

C5_NoPlanUnlessUsable ==
    /\ (prog \in {"solver2", "api"} /\ status \in {"INFEASIBLE", "UNKNOWN"})
          => (solution = None /\ required_hours = None)
    /\ (prog = "solver" /\ status \in {"INFEASIBLE", "UNKNOWN"}) => solution = None
    /\ (prog \in {"solver2", "api"} /\ status \in {"OPTIMAL", "FEASIBLE"})
          => (solution # None /\ DOMAIN solution = Roster /\ required_hours # None)
    /\ (prog = "solver" /\ status \in {"OPTIMAL", "FEASIBLE"})
          => (solution # None
              /\ {solution[i].Trainset_ID : i \in DOMAIN solution} = Roster
              /\ Len(solution) = Cardinality(Roster))

\* C5 witness: the time budget ran out although the constraints can be met,
\* and nothing was returned.
C5_Witness ==
    /\ prog = "solver2" /\ pc = "no_solution" /\ status = "UNKNOWN"
    /\ Feasible(data, eligibility_details) # {}
    /\ solution = None

(***************************************************************************)
(* Claims on the ranker, checked under SpecRank.                           *)
(***************************************************************************)
\* The mileages of the ranked trains of one status, in rank order
RankedMileages(st) ==
    LET rows == SelectSeq(final_ranked_list, LAMBDA r : r.status = st)
    IN  [i \in DOMAIN rows |-> rows[i].mileage]

NonDecreasing(s) == \A i, j \in DOMAIN s : i < j => s[i] <= s[j]
NonIncreasing(s) == \A i, j \in DOMAIN s : i < j => s[i] >= s[j]

\* The selected route's distance is at least the mean distance of the table
SelectedIsLong ==
    LET n   == Len(lines)
        km  == (CHOOSE r \in Range(lines) : r.name = selected_line).km
    IN  km * n >= SumSeq([i \in 1..n |-> lines[i].km])

\* C10: the Service bucket is ranked in non-decreasing mileage when the
\* selected route's distance is at least the mean of the configured routes
\* and in non-increasing mileage when it is below it; the Standby and the
\* Maintenance bucket are ranked in non-decreasing mileage in both cases.
C10_BucketOrder ==
    pc = "ranked" =>
        /\ SelectedIsLong => NonDecreasing(RankedMileages("Revenue Service"))
        /\ ~SelectedIsLong => NonIncreasing(RankedMileages("Revenue Service"))
        /\ NonDecreasing(RankedMileages("Standby"))
        /\ NonDecreasing(RankedMileages("Maintenance"))

\* C10 witness: three trains in service, listed from high to low mileage,
\* have been ranked from low to high for a route whose distance is the mean.
C10_Witness ==
    /\ pc = "ranked"
    /\ selected_line = "Loop"
    /\ \A t \in Roster : solution[t] = "Revenue Service"
    /\ [i \in DOMAIN data.trainsets |-> data.trainsets[i].cumulative_mileage_km]
          = <<180000, 140000, 100001>>
    /\ RankedMileages("Revenue Service") = <<100001, 140000, 180000>>

\* The ranking calls of the history
RankingCalls ==
    {i \in DOMAIN evals : evals[i].fn \in {"show_train_recommendations_for_line", "tab3"}}

\* The route of ranking call i is at least as long as the mean of its table
CallIsLong(i) ==
    LET ls == evals[i].ref.lines
        km == (CHOOSE r \in Range(ls) : r.name = evals[i].ref.selected_line).km
    IN  km * Len(ls) >= SumSeq([k \in DOMAIN ls |-> ls[k].km])

\* The mileages of the trains of one status in a ranked list, in rank order
MileagesOf(list, st) ==
    LET rows == SelectSeq(list, LAMBDA r : r.status = st)
    IN  [i \in DOMAIN rows |-> rows[i].mileage]

Reverse(s) == [i \in DOMAIN s |-> s[Len(s) + 1 - i]]

\* C11: for one assignment, the mileages of the Service bucket ranked for a
\* long route are, read backwards, the mileages of the same bucket ranked
\* for a short route.
C11_LongReversesShort ==
    \A i, j \in RankingCalls :
        (evals[i].ref.lines = evals[j].ref.lines /\ CallIsLong(i) /\ ~CallIsLong(j))
            => MileagesOf(evals[i].out, "Revenue Service")
                   = Reverse(MileagesOf(evals[j].out, "Revenue Service"))

\* C11 witness: three trains in service, two of one mileage, were ranked for
\* a short route and then for a long one.
C11_Witness ==
    /\ Len(evals) = 2
    /\ ~CallIsLong(1) /\ CallIsLong(2)
    /\ MileagesOf(evals[1].out, "Revenue Service") = <<180000, 140000, 140000>>
    /\ MileagesOf(evals[2].out, "Revenue Service") = <<140000, 140000, 180000>>

\* The status a row of the dashboard names: the text behind the colour mark
StatusShown(row) ==
    CASE row.status = "(green) Revenue Service" -> "Revenue Service"
      [] row.status = "(yellow) Standby"        -> "Standby"
      [] row.status = "(red) Maintenance"       -> "Maintenance"
      [] OTHER                                  -> row.status

\* The status the engine's values give a train
StatusOfValues(t) ==
    IF values[t].service = 1 THEN "Revenue Service"
    ELSE IF values[t].standby = 1 THEN "Standby" ELSE "Maintenance"

\* C12: every train of the assignment has a row in the ranked
\* recommendations, and the status of each row is the status decoded for
\* its train from the engine's Boolean values, for any route.
C12_RankingKeepsStatus ==
    pc = "ranked" =>
        /\ \A t \in DOMAIN solution : \E i \in DOMAIN printed : printed[i].id = t
        /\ \A i \in DOMAIN printed : StatusShown(printed[i]) = StatusOfValues(printed[i].id)

\* C12 witness: the dashboard shows a ranking that holds all three statuses.
C12_Witness ==
    /\ pc = "ranked"
    /\ prog = "app"
    /\ {StatusShown(printed[i]) : i \in DOMAIN printed}
          = {"Revenue Service", "Standby", "Maintenance"}

\* The rank a status has among the buckets
BucketRank(st) ==
    CASE st = "Revenue Service" -> 1
      [] st = "Standby"         -> 2
      [] OTHER                  -> 3

\* C13: the ranked list holds every assigned train once, its rows carry the
\* ranks 1..N in order, and no train of a later bucket is ranked before a
\* train of an earlier one (Service, then Standby, then Maintenance).
C13_RankedListIsPermutation ==
    pc = "ranked" =>
        /\ Len(printed) = Cardinality(DOMAIN solution)
        /\ {printed[i].id : i \in DOMAIN printed} = DOMAIN solution
        /\ \A i \in DOMAIN printed : printed[i].rank = i
        /\ \A i, j \in DOMAIN final_ranked_list :
              i < j => BucketRank(final_ranked_list[i].status)
                          <= BucketRank(final_ranked_list[j].status)

\* C13 witness: a ranked list of three trains whose statuses, in roster
\* order, were Maintenance, Standby, Revenue Service.
C13_Witness ==
    /\ pc = "ranked"
    /\ [i \in DOMAIN data.trainsets |-> solution[data.trainsets[i].trainset_id]]
          = <<"Maintenance", "Standby", "Revenue Service">>
    /\ [i \in DOMAIN printed |-> printed[i].id] = <<"T3", "T2", "T1">>

\* The place of a train on the roster, the order of the input assignment
RosterIndex(t) ==
    CHOOSE i \in DOMAIN data.trainsets : data.trainsets[i].trainset_id = t

\* The train ids of a ranked list, in rank order
RankOrder(list) == [i \in DOMAIN list |-> list[i].id]

\* C14: two rankings of one assignment for one route table and one route
\* give the same list, and in every ranked list two trains of one bucket
\* with equal mileage stand in the order of the input assignment.
C14_DeterministicAndStable ==
    /\ \A i, j \in RankingCalls :
          evals[i].ref = evals[j].ref => RankOrder(evals[i].out) = RankOrder(evals[j].out)
    /\ \A c \in RankingCalls :
          \A i, j \in DOMAIN evals[c].out :
              (/\ i < j
               /\ evals[c].out[i].status = evals[c].out[j].status
               /\ evals[c].out[i].mileage = evals[c].out[j].mileage)
                  => RosterIndex(evals[c].out[i].id) < RosterIndex(evals[c].out[j].id)

\* C14 witness: service trains T1 and T3 have one mileage, and were ranked
\* for a short route and for a long one.
C14_Witness ==
    /\ Len(evals) = 2
    /\ ~CallIsLong(1) /\ CallIsLong(2)
    /\ RankOrder(evals[1].out) = <<"T1", "T3", "T2">>
    /\ RankOrder(evals[2].out) = <<"T2", "T1", "T3">>
    /\ \A i \in 1..3 : evals[1].out[i].status = "Revenue Service"

(***************************************************************************)
(* Claims on failing runs, checked under Spec.                             *)
(***************************************************************************)
\* C15: the ranker called with no assignment (None) or an empty one returns
\* before a route is selected and ranks nothing, and a ranked list exists,
\* on the command line and in the dashboard, only when an assignment does.
C15_NoRankingWithoutAssignment ==
    /\ pc = "rank_refused"
          => /\ solution = None \/ DOMAIN solution = {}
             /\ selected_line = None
             /\ final_ranked_list = None
             /\ printed = None
    /\ (final_ranked_list # None \/ printed # None)
          => /\ solution # None
             /\ DOMAIN solution # {}

\* C15 witness: the engine found the constraints infeasible, a caller passed
\* the None it got to the ranker, and the ranker returned at once.
C15_Witness ==
    /\ pc = "rank_refused"
    /\ status = "INFEASIBLE"
    /\ solution = None
    /\ final_ranked_list = None

\* The run ended in load_data
LoadFailed(p) == p \in {"load_failed", "crashed"}

\* C16: a step that ends with a failed load (directory or file missing or
\* unreadable) changes no verdict, no engine result, no assignment and no
\* ranking; on the command line the run then holds none of them and takes
\* no further step.
C16_LoadFailureEndsRun ==
    [][ /\ LoadFailed(pc')
              => UNCHANGED <<eligibility_details, eligibility, shunting_costs, status,
                             values, solution, required_hours, final_ranked_list, printed>>
        /\ (LoadFailed(pc') /\ prog # "app")
              => /\ eligibility_details' = None /\ eligibility' = None
                 /\ status' = "NOT_RUN" /\ values' = None
                 /\ solution' = None /\ required_hours' = None
                 /\ final_ranked_list' = None /\ printed' = None
        /\ (LoadFailed(pc) /\ prog # "app") => UNCHANGED vars ]_vars

\* C16 witness: solver.py's run was ended by the exception of an unreadable
\* file, with nothing evaluated, solved or ranked.
C16_Witness ==
    /\ prog = "solver"
    /\ pc = "crashed"
    /\ eligibility = None
    /\ solution = None

\* C17: the outcome a failed solve returns tells its kind: what is returned
\* when the engine reports INFEASIBLE is not what is returned when the time
\* budget runs out (UNKNOWN), and the other way round.
C17_FailuresTypedByKind ==
    (prog \in {"solver2", "api"} /\ status \in {"INFEASIBLE", "UNKNOWN"})
        => \A other \in {"INFEASIBLE", "UNKNOWN"} \ {status} :
              primary_return(data, [status |-> other, values |-> None])
                  # [solution |-> solution, required_hours |-> required_hours]

\* The trains with an open critical job card
CriticalTrains == {t \in Roster : HasCriticalOpenJob(t)}

\* The open man-hours of a set of trains
RECURSIVE TotalPendingHours(_)
TotalPendingHours(S) ==
    IF S = {} THEN 0
    ELSE LET t == CHOOSE x \in S : TRUE IN PendingHours(t) + TotalPendingHours(S \ {t})

\* The man-hour capacity does not cover the trains with a critical job open
Shortfall ==
    /\ data # None
    /\ status # "NOT_RUN"
    /\ Capacity("Cleaning_Staff_ManHours") < TotalPendingHours(CriticalTrains)

\* The truncated mileage deviation of train t from the fleet average
TruncatedDeviation(t) ==
    LET n     == Len(data.trainsets)
        total == SumSeq([i \in DOMAIN data.trainsets |-> data.trainsets[i].cumulative_mileage_km])
        m     == data.trainsets[RosterIndex(t)].cumulative_mileage_km
        x     == m * n - total
    IN  IF x >= 0 THEN x \div n ELSE -((-x) \div n)

AloneResults(d) ==
    LET ed == preprocess_data_with_reasons(d)
        sc == preprocess_shunting_costs(d.layout_costs)
        F  == Feasible(d, ed)
    IN  {[status |-> res.status, out |-> primary_return(d, res)] :
            res \in solver_solve(F, [a \in F |-> objective(d, ed, sc, a)])}

\* C19: with two runs interleaved in any order, the model a run has built
\* holds the variables and constraints of its own scenario, and what a run
\* returns is a result of the pipeline run alone on that scenario.
C19_RunsShareNoState ==
    \A r \in RunIds :
        /\ runs[r].model # None
              => runs[r].model.feasible
                    = Feasible(runs[r].data, preprocess_data_with_reasons(runs[r].data))
        /\ runs[r].pc = "returned"
              => [status |-> runs[r].status,
                  out    |-> [solution |-> runs[r].solution,
                             required_hours |-> runs[r].required_hours]]
                    \in AloneResults(runs[r].data)

\* C19 witness: the two runs, on different scenarios, have both returned
\* an optimal plan, and the two plans differ.
C19_Witness ==
    /\ runs[1].pc = "returned" /\ runs[2].pc = "returned"
    /\ runs[1].data # runs[2].data
    /\ runs[1].status = "OPTIMAL" /\ runs[2].status = "OPTIMAL"
    /\ runs[1].solution # runs[2].solution

(***************************************************************************)
(* Claims on the objective, checked under Spec.                            *)
(***************************************************************************)
\* What the mileage term of the run's objective charges train t under the
\* engine's values
MileageCharge(t) ==
    IF prog = "solver" THEN mileage_cost_legacy(data, values, t)
    ELSE service_mileage_cost(data, values, t)

\* C20: under the values of a returned plan, the mileage term charges a
\* train in service the absolute value of its (whole-number) deviation from
\* the fleet average, below the average as well as above it, and charges a
\* train on Standby or in Maintenance nothing.
C20_MileageTermIsAbsoluteDeviation ==
    (data # None /\ values # None) =>
        \A t \in Roster :
            MileageCharge(t) =
                IF StatusOfValues(t) = "Revenue Service"
                THEN (IF TruncatedDeviation(t) < 0 THEN -TruncatedDeviation(t)
                      ELSE TruncatedDeviation(t))
                ELSE 0

\* C21: under the values of a returned plan, the branding term charges an
\* SLA row its penalty_per_hour exactly when the row's train is not in
\* service and its current exposure is below its target, and 0 otherwise.
C21_BrandingChargesUnmetTarget ==
    (data # None /\ values # None) =>
        \A i \in DOMAIN data.slas :
            data.slas[i].trainset_id \in Roster =>
                branding_penalty(data, values, i) =
                    IF /\ StatusOfValues(data.slas[i].trainset_id) # "Revenue Service"
                       /\ data.slas[i].current_exposure_hours
                              < data.slas[i].target_exposure_hours
                    THEN data.slas[i].penalty_per_hour
                    ELSE 0

\* A run of solve_primary_assignment has handed its model to the engine and
\* the engine has set the decision variables
PrimaryValues ==
    /\ prog \in {"solver2", "api", "app"}
    /\ data # None /\ eligibility_details # None /\ values # None

\* C22: under the values of a returned plan, the urgency term charges 1 for
\* a train that is on Standby and whose verdict carries the reason critical
\* maintenance open, and 0 for every other train: one with the reason
\* missing certificates or certificate expired, one in Maintenance or in
\* service, one that is eligible.
C22_UrgencyChargesCriticalOnStandby ==
    PrimaryValues =>
        /\ \A t \in Roster :
              urgency_cost(eligibility_details, values, t) =
                  IF /\ StatusOfValues(t) = "Standby"
                     /\ t \in DOMAIN eligibility_details
                     /\ eligibility_details[t].reason = REASON_CRITICAL
                  THEN 1 ELSE 0
        /\ urgency_penalty(data, eligibility_details, values) =
              Cardinality({t \in Roster :
                              /\ StatusOfValues(t) = "Standby"
                              /\ t \in DOMAIN eligibility_details
                              /\ eligibility_details[t].reason = REASON_CRITICAL})

\* C22 witness: of two trains with a critical job open and one bay, the
\* optimal plan leaves one on Standby, charged 1, and sends the other to
\* Maintenance, charged 0.
C22_Witness ==
    /\ PrimaryValues /\ status = "OPTIMAL"
    /\ \E t, u \in Roster :
          /\ eligibility_details[t].reason = REASON_CRITICAL
          /\ eligibility_details[u].reason = REASON_CRITICAL
          /\ StatusOfValues(t) = "Standby" /\ StatusOfValues(u) = "Maintenance"
          /\ urgency_cost(eligibility_details, values, t) = 1
          /\ urgency_cost(eligibility_details, values, u) = 0

\* The feasible assignments, and the terms of the objective, of the model the
\* run has built from its datasets and verdicts
ModelBuilt == data # None /\ shunting_costs # None /\ prog \in {"solver2", "api", "app", "solver"}

FeasibleNow ==
    IF prog = "solver" THEN FeasibleLegacy(data, eligibility)
    ELSE Feasible(data, eligibility_details)

ObjectiveNow(a) ==
    IF prog = "solver" THEN objective_legacy(data, shunting_costs, a)
    ELSE objective(data, eligibility_details, shunting_costs, a)

\* The weighted urgency and branding terms (solver.py has no urgency term)
ObligationCost(a) ==
    IF prog = "solver" THEN w_branding_legacy * total_branding_penalty(data, a)
    ELSE w_urgency * urgency_penalty(data, eligibility_details, a)
         + w_branding * total_branding_penalty(data, a)

\* The mileage term
BalancingCost(a) ==
    IF prog = "solver" THEN total_mileage_cost_legacy(data, a)
    ELSE total_mileage_deviation_cost(data, a)

\* C23: of two feasible assignments of the model, the one with the smaller
\* urgency-plus-branding cost has the smaller objective, and of two that are
\* equal on urgency and on branding the one with the smaller mileage cost
\* has the smaller objective.
C23_StrictPriorityOrder ==
    ModelBuilt =>
        \A a, b \in FeasibleNow :
            /\ ObligationCost(a) < ObligationCost(b) => ObjectiveNow(a) < ObjectiveNow(b)
            /\ (ObligationCost(a) = ObligationCost(b) /\ BalancingCost(a) < BalancingCost(b))
                  => ObjectiveNow(a) < ObjectiveNow(b)

(***************************************************************************)
(* Claim on the reasoning column, checked under Spec.                      *)
(***************************************************************************)
\* The fleet's mileages add up to Len * average
FleetTotal ==
    SumSeq([i \in DOMAIN data.trainsets |-> data.trainsets[i].cumulative_mileage_km])

MileageOf(t) == data.trainsets[RosterIndex(t)].cumulative_mileage_km

\* What a reasoning cell says, whichever of the two wordings it uses
ReasonSays(r) ==
    CASE r.text \in {"Good for this route", "Ready for service"}
            -> [kind |-> "service", mileage |-> r.mileage_status]
      [] r.text \in {"Scheduled work", "Scheduled maintenance"}
            -> [kind |-> "maintenance", hrs |-> r.hrs]
      [] r.text \in {"Eligible, but high mileage (held for balancing)",
                     "Eligible, held for fleet balancing (high mileage)"}
            -> [kind |-> "balancing"]
      [] r.text \in {"Eligible, held as operational spare", "Eligible operational spare"}
            -> [kind |-> "spare"]
      [] OTHER -> [kind |-> "verdict", reason |-> r.text]

\* What the claim has the reasoning of train t say
ReasonDue(t) ==
    IF ~eligibility_details[t].is_eligible
    THEN [kind |-> "verdict", reason |-> eligibility_details[t].reason]
    ELSE IF solution[t] = "Revenue Service"
    THEN [kind |-> "service",
          mileage |-> IF MileageOf(t) * Len(data.trainsets) < FleetTotal
                      THEN "Low Mileage" ELSE "High Mileage"]
    ELSE IF solution[t] = "Maintenance"
    THEN [kind |-> "maintenance", hrs |-> PendingHours(t)]
    ELSE IF MileageOf(t) * Len(data.trainsets) > FleetTotal
    THEN [kind |-> "balancing"]
    ELSE [kind |-> "spare"]

SessionFields ==
    <<solution, data, scenario, selected_line, eligibility_details, required_hours>>

\* The step is a run of the script in which Optimize was pressed and failed
OptimizeFailed == prog = "app" /\ pc' \in {"load_failed", "no_solution"}

\* The rows on display show every train of the stored assignment with the
\* status the assignment gives it
ShowsStored(rows, sol) ==
    /\ rows # None
    /\ {rows[i].id : i \in DOMAIN rows} = DOMAIN sol
    /\ \A i \in DOMAIN rows : StatusShown(rows[i]) = sol[rows[i].id]

\* C25: a run of the script in which Optimize fails, because the folder
\* cannot be loaded or because the solver returns no assignment, changes
\* none of the six session fields and nothing of the ranking on display; an
\* assignment stored before it is stored and displayed after it.
C25_FailedOptimizeKeepsSession ==
    [][ OptimizeFailed =>
            /\ UNCHANGED SessionFields
            /\ UNCHANGED <<final_ranked_list, printed>>
            /\ (solution # None /\ DOMAIN solution # {})
                  => ShowsStored(printed', solution') ]_vars

\* C25 witness: after a successful Optimize on balanced_case, an Optimize
\* came back without an assignment; the plan of balanced_case is on display.
C25_Witness ==
    /\ prog = "app"
    /\ pc = "no_solution"
    /\ solution # None
    /\ scenario = "balanced_case"
    /\ ShowsStored(printed, solution)

\* The assignments solve_primary_assignment can return for the tables d
PlansFor(d) ==
    LET ed == preprocess_data_with_reasons(d)
    IN  {decode_solution(d, a) : a \in Feasible(d, ed)}

\* The six fields after the step are the outputs of one run of Optimize on
\* the folder named by scenario, for the route the selectbox held
FromOneRun ==
    /\ data' = load_scenario(scenario')
    /\ data' # None
    /\ eligibility_details' = preprocess_data_with_reasons(data')
    /\ required_hours' = required_hours_of(data')
    /\ solution' \in PlansFor(data')
    /\ selected_line' = sidebar_line
    /\ selected_line' \in line_options

\* C26: in a dashboard session of Optimize, Clear and route changes in any
\* order, a step that leaves optimization_results set either leaves all six
\* fields as they were or sets all six to the outputs of one successful
\* run; so whenever optimization_results is set, data_frames, scenario,
\* selected_line, eligibility_details and required_hours are set and belong
\* to the run that produced it.
C26_SessionFieldsFromOneRun ==
    [][ (prog = "app" /\ solution' # None) =>
            /\ data' # None /\ eligibility_details' # None /\ required_hours' # None
            /\ selected_line' \in line_options
            /\ \E f \in Range(AppFolders) : scenario' = f.name
            /\ data' = load_scenario(scenario')
            /\ eligibility_details' = preprocess_data_with_reasons(data')
            /\ required_hours' = required_hours_of(data')
            /\ solution' \in PlansFor(data')
            /\ \/ UNCHANGED SessionFields
               \/ pc' = "solved" /\ FromOneRun ]_vars

\* C26 witness: the session holds the plan of bottleneck_case, stored for
\* Line E, after an Optimize on a folder that could not be loaded; the
\* selectbox is back on another route.
C26_Witness ==
    /\ prog = "app"
    /\ pc = "load_failed"
    /\ solution # None
    /\ scenario = "bottleneck_case"
    /\ data = load_scenario("bottleneck_case")
    /\ selected_line = METRO_LINES[5].name
    /\ sidebar_line = METRO_LINES[2].name

\* The route of the table is at least as long as the mean of the table
LongRoute(name) ==
    LET km == (CHOOSE r \in Range(METRO_LINES) : r.name = name).km
    IN  km * Len(METRO_LINES) >= SumSeq([i \in DOMAIN METRO_LINES |-> METRO_LINES[i].km])

\* An assignment of at least one train is stored, so there is a ranking
Ranking == solution # None /\ DOMAIN solution # {}

\* C27: the stored route is the selectbox value of the last successful
\* Optimize, and the ranking on display is the ranking for the stored
\* route: a step that is not a successful Optimize (a route change, a
\* failed Optimize) keeps the stored route and the rank order on display,
\* and after every step the Service bucket on display is in ascending
\* mileage if the stored route is long and in descending mileage if it is
\* short, whatever route the selectbox holds.
C27_RankingUsesStoredRoute ==
    [][ prog = "app" =>
            /\ pc' = "solved" => selected_line' = sidebar_line
            /\ (pc' # "solved" /\ Ranking /\ solution' # None)
                  => /\ selected_line' = selected_line
                     /\ RankOrder(final_ranked_list') = RankOrder(final_ranked_list)
            /\ (solution' # None /\ DOMAIN solution' # {})
                  => /\ LongRoute(selected_line')
                           => NonDecreasing(MileagesOf(final_ranked_list', "Revenue Service"))
                     /\ ~LongRoute(selected_line')
                           => NonIncreasing(MileagesOf(final_ranked_list', "Revenue Service")) ]_vars

\* C27 witness: a plan with both trains of balanced_case in service was
\* stored for a short route and the selectbox was then moved to a long one;
\* the train of higher mileage is still ranked first.
C27_Witness ==
    /\ prog = "app"
    /\ pc = "idle"
    /\ Ranking
    /\ ~LongRoute(selected_line)
    /\ LongRoute(sidebar_line)
    /\ MileagesOf(final_ranked_list, "Revenue Service") = <<140000, 100001>>

(***************************************************************************)
(* Claims on the satisfiability of the model, checked under Spec.          *)
(***************************************************************************)
\* solve_primary_assignment has handed its model to the engine
PrimarySolved ==
    /\ prog \in {"solver2", "api", "app"}
    /\ data # None /\ eligibility_details # None
    /\ status # "NOT_RUN"

\* Every train on Standby
AllStandby ==
    [t \in Roster |-> [service |-> 0, standby |-> 1, maintenance |-> 0]]

\* The mileage of train t is within AbsDevMax km of the fleet average
NearAverage(t) ==
    LET x == MileageOf(t) * Len(data.trainsets) - FleetTotal
    IN  x <= AbsDevMax * Len(data.trainsets) /\ -x <= AbsDevMax * Len(data.trainsets)

\* C28: when both capacities are at least 0 and every train's mileage is
\* within 200000 km of the fleet average, the assignment of every train to
\* Standby satisfies exactly-one, the eligibility constraint, the bay limit
\* and the man-hour limit of the model, and the engine's status is not
\* INFEASIBLE.
C28_AllStandbyIsFeasible ==
    (/\ PrimarySolved
     /\ Capacity("IBL_Bays") >= 0
     /\ Capacity("Cleaning_Staff_ManHours") >= 0
     /\ \A t \in Roster : NearAverage(t))
        => /\ \A t \in Roster :
                 /\ ExactlyOne(AllStandby, t)
                 /\ ServiceOnlyIfEligible(eligibility_details, AllStandby, t)
           /\ BayLimit(data, AllStandby)
           /\ ManpowerLimit(data, required_hours_of(data), AllStandby)
           /\ AllStandby \in Feasible(data, eligibility_details)
           /\ status # "INFEASIBLE"

\* C28 witness: no bay is available and both trains have a critical job
\* open; the optimal plan is the one that leaves both on Standby.
C28_Witness ==
    /\ PrimarySolved
    /\ prog = "solver2"
    /\ status = "OPTIMAL"
    /\ Capacity("IBL_Bays") = 0
    /\ Cardinality(Roster) = 2
    /\ CriticalTrains = Roster
    /\ values = AllStandby
    /\ Feasible(data, eligibility_details) = {AllStandby}

\* The trains whose truncated mileage deviation is outside -200000..200000
FarFromAverage ==
    {t \in Roster : TruncatedDeviation(t) > AbsDevMax \/ TruncatedDeviation(t) < -AbsDevMax}

\* C29: solve_primary_assignment returns a solution only if no train's
\* truncated mileage deviation from the fleet average is outside
\* -200000..200000; with one train outside, no assignment satisfies the
\* model, whatever status the train is given, and None is returned.
C29_DeviationBoundOrNoSolution ==
    /\ PrimaryReturned => FarFromAverage = {}
    /\ (PrimarySolved /\ prog # "app" /\ FarFromAverage # {})
          => /\ Feasible(data, eligibility_details) = {}
             /\ status \in {"INFEASIBLE", "UNKNOWN"}
             /\ solution = None

\* C29 witness: of three eligible trains one is 399999 km above the average
\* and two are within the bound; the engine reported INFEASIBLE and nothing
\* was returned.
C29_Witness ==
    /\ PrimarySolved
    /\ prog = "solver2"
    /\ status = "INFEASIBLE"
    /\ Cardinality(Roster) = 3
    /\ Cardinality(FarFromAverage) = 1
    /\ \A t \in Roster : eligibility_details[t].is_eligible
    /\ solution = None

(***************************************************************************)
(* Claim on the built-in route table, checked under Spec.                  *)
(***************************************************************************)
LongLines  == {"Line D (Express: 80km)", "Line E (Long Express: 100km)"}
ShortLines == {"Line A (Short: 20km)", "Line B (Medium: 40km)", "Line C (Long: 60km)"}

\* The ranking at hand was made with the built-in table: by the command
\* line for the route typed in, or by the dashboard for the stored route
BuiltInRanking ==
    /\ final_ranked_list # None
    /\ lines = METRO_LINES
    /\ prog \in {"solver2", "api", "app"}

\* C30: the built-in table holds the five routes with the daily distances
\* 250, 450, 650, 900 and 1100; the classification both rankers use calls
\* Line D and Line E long and Line A, Line B and Line C short, and every
\* ranking made with the table has its Service bucket in ascending mileage
\* for Line D and Line E and in descending mileage for the other three.
C30_BuiltInClassification ==
    /\ {<<METRO_LINES[i].name, METRO_LINES[i].km>> : i \in DOMAIN METRO_LINES}
          = { <<"Line A (Short: 20km)", 250>>, <<"Line B (Medium: 40km)", 450>>,
              <<"Line C (Long: 60km)", 650>>, <<"Line D (Express: 80km)", 900>>,
              <<"Line E (Long Express: 100km)", 1100>> }
    /\ \A n \in LongLines \cup ShortLines :
          is_long_line(METRO_LINES, n) <=> n \in LongLines
    /\ BuiltInRanking =>
          /\ selected_line \in LongLines \cup ShortLines
          /\ selected_line \in LongLines
                => NonDecreasing(MileagesOf(final_ranked_list, "Revenue Service"))
          /\ selected_line \in ShortLines
                => NonIncreasing(MileagesOf(final_ranked_list, "Revenue Service"))

\* C30 witness: the command line has ranked two service trains for Line C,
\* the longest of the short routes: the train of higher mileage comes first.
C30_Witness ==
    /\ BuiltInRanking
    /\ prog = "solver2"
    /\ selected_line = "Line C (Long: 60km)"
    /\ MileagesOf(final_ranked_list, "Revenue Service") = <<140000, 100001>>

====
